---- MODULE Spec2Model ----
(***************************************************************************)
(* Verification model of the rim-pay provider execution engine.            *)
(*                                                                         *)
(*   SpecRetry : RetryExecutor.ExecutePayment driven by an arbitrary       *)
(*               operation and an arbitrary cancellation instant           *)
(*               (internal/providers/common/retry.go).                     *)
(*   SpecCred  : goroutines calling the B-PAY AuthManager and the MASRVI   *)
(*               SessionManager concurrently (auth.go / session.go).       *)
(*   SpecSession : the SessionManager alone.                               *)
(*   SpecBPay  : a B-PAY payment, PaymentProcessor.ProcessPayment run by   *)
(*               ExecutePayment, beside goroutines using the AuthManager.  *)
(*   SpecPasscode : generatePasscode over every value of the random source.*)
(*   SpecTxn   : a TransactionStatus under webhook notifications and       *)
(*               AddEvent (masrvi/payment.go, TransactionStatus.AddEvent). *)
(*   SpecAdapters : what the B-PAY and MASRVI adapters hand back for every *)
(*               provider answer.                                          *)
(*   SpecMasrvi : MASRVI ProcessPayment beside goroutines using the        *)
(*               SessionManager.                                           *)
(*   SpecClient : the entry points of the client (pkg/rimpay).             *)
(*   SpecIssuer : both adapters' ProcessPayment against failing issuers.   *)
(*   SpecDelay : RetryExecutor.calculateDelay over retry configurations,   *)
(*               attempt numbers and values of the random source.          *)
(*   SpecProviders : goroutines reading and writing Client.providers.      *)
(*   SpecLive  : the two managers under a fair scheduler, for termination. *)
(***************************************************************************)
EXTENDS Integers, Sequences, FiniteSets, TLC

(***************************************************************************)
(* Bounds of the model.                                                    *)
(***************************************************************************)
\* largest RetryConfig.MaxAttempts explored (0 is explored too)
MaxAttemptsBound == 3

\* number of goroutines using the credential caches
NumProcs == 2

\* total number of manager calls started in one behaviour
MaxCalls == 3

\* last instant of the wall clock (minutes)
MaxTime == 6

\* longest token lifetime (expires_in, minutes) the provider announces
MaxExpiresIn == 1

\* longest event list of a TransactionStatus
MaxEvents == 2

\* number of webhook notifications handled in one behaviour
MaxNotifications == 2

\* number of results handed back by the adapters in one behaviour
MaxEmitted == 2

\* number of calls of MASRVI's ProcessPayment in one behaviour
MaxPayments == 2

\* number of calls of the client's entry points in one behaviour
MaxClientCalls == 1

\* number of client methods touching Client.providers called in one behaviour
MaxMapCalls == 3

\* largest attempt number handed to calculateDelay
MaxAttemptNumber == 18

\* width in bits of time.Duration in the model (int64 in the program): the
\* arithmetic is the program's, on a narrower integer
DurationBits == 16

(***************************************************************************)
(* State.                                                                  *)
(***************************************************************************)
VARIABLES
    \* ---- RetryExecutor.ExecutePayment ----
    MaxAttempts,    \* re.config.MaxAttempts
    pc,             \* position of the ExecutePayment goroutine
    attempt,        \* loop variable
    lastErr,        \* var lastErr error
    lastResp,       \* var lastResp *types.PaymentResponse
    ctxDone,        \* ctx.Done() is closed
    ret,            \* value returned by ExecutePayment
    calls,          \* number of invocations of fn so far
    sleeps,         \* number of backoff sleeps begun so far
    outcomes,       \* what each invocation of fn returned, in order
    cancelAt,       \* where ExecutePayment was when the context was cancelled
    \* ---- AuthManager (B-PAY) ----
    auth,           \* am.auth
    authWriter,     \* holder of am.authMutex.Lock(), 0 if none
    authReaders,    \* holders of am.authMutex.RLock()
    \* ---- SessionManager (MASRVI) ----
    sessionCache,   \* sm.sessionCache[merchantID]
    cacheWriter,    \* holder of sm.cacheMutex.Lock(), 0 if none
    cacheReaders,   \* holders of sm.cacheMutex.RLock()
    now,            \* time.Now(), in minutes
    \* ---- goroutines calling the managers ----
    gpc,            \* position of each goroutine
    call,           \* bookkeeping of the call each goroutine is executing
    result,         \* value returned by the last call of each goroutine
    started,        \* number of manager calls started
    issued,         \* number of credentials handed out by the providers
    hist,           \* observations about the behaviour so far
    \* ---- PaymentProcessor.ProcessPayment (B-PAY) ----
    request,        \* the caller's *rimpay.PaymentRequest
    bp,             \* locals of the running invocation of ProcessPayment
    wire,           \* the payment requests transmitted to the provider, in order
    log,            \* what each invocation of ProcessPayment did, in order
    \* ---- generatePasscode ----
    rnd,            \* what rand.Int(rand.Reader, ...) returns
    generated,      \* what generatePasscode returned
    \* ---- TransactionStatus and the MASRVI webhook ----
    ts,             \* the *rimpay.TransactionStatus of the transaction
    hn,             \* the calls of HandleNotification: count, last argument and return
    \* ---- the provider adapters ----
    emitted,        \* what the adapters handed back, in order
    \* ---- MASRVI ProcessPayment ----
    mp,             \* the MASRVI processor and the locals of its ProcessPayment
    \* ---- the client's entry points ----
    cl,             \* the call of an entry point: stage, arguments, steps, return
    \* ---- calculateDelay ----
    dl,             \* the RetryConfig and the last call of calculateDelay
    \* ---- Client.providers and Client.mu ----
    pm              \* the map, the mutex, and each goroutine's method call

retryVars == <<MaxAttempts, pc, attempt, lastErr, lastResp, ctxDone, ret,
               calls, sleeps, outcomes, cancelAt>>

credVars == <<auth, authWriter, authReaders, sessionCache, cacheWriter,
              cacheReaders, now, gpc, call, result, started, issued, hist>>

bpayVars == <<request, bp, wire, log>>

passVars == <<rnd, generated>>

\* the state an action of one component leaves to the other components
txnVars == <<ts, hn>>

\* the components added to the payment path: status tracking
adapterVars == <<emitted>>
masrviVars == <<mp>>
clientVars == <<cl>>
delayVars == <<dl>>
mapVars == <<pm>>
restVars == <<txnVars, adapterVars, masrviVars, clientVars, delayVars, mapVars>>

nonRetryVars == <<credVars, bpayVars, passVars, restVars>>

nonCredVars == <<retryVars, bpayVars, passVars, restVars>>

nonTxnVars == <<retryVars, credVars, bpayVars, passVars, adapterVars, masrviVars, clientVars,
        delayVars, mapVars>>
nonAdapterVars == <<retryVars, credVars, bpayVars, passVars, txnVars, masrviVars, clientVars,
        delayVars, mapVars>>
nonMasrviVars == <<retryVars, bpayVars, passVars, txnVars, adapterVars, clientVars, delayVars, mapVars>>
nonDelayVars == <<retryVars, credVars, bpayVars, passVars, txnVars, adapterVars, masrviVars, clientVars, mapVars>>
nonMapVars == <<retryVars, credVars, bpayVars, passVars, txnVars, adapterVars, masrviVars,
               clientVars, delayVars>>
nonClientVars == <<retryVars, credVars, bpayVars, passVars, txnVars, adapterVars, masrviVars,
        delayVars, mapVars>>

vars == <<retryVars, credVars, bpayVars, passVars, restVars>>

(***************************************************************************)
(* Values.                                                                 *)
(***************************************************************************)
\* a nil error
NilErr == [type |-> "nil", retryable |-> FALSE, id |-> 0]

\* ctx.Err()
CtxErr == [type |-> "ctx", retryable |-> FALSE, id |-> 0]

\* *types.PaymentError returned by the k-th invocation
PaymentError(retryable, k) ==
    [type |-> "PaymentError", retryable |-> retryable, id |-> k]

\* an error of another type returned by the k-th invocation
OtherError(k) == [type |-> "other", retryable |-> FALSE, id |-> k]

\* a nil *types.PaymentResponse
NilResp == 0

\* (e *PaymentError) IsRetryable()
IsRetryable(e) == e.retryable

\* what an invocation of fn can return: kind of error, and whether the
\* response is non-nil
FnKinds == {"nil", "retryable", "nonretryable", "other"}

FnError(kind, k) ==
    CASE kind = "nil"          -> NilErr
      [] kind = "retryable"    -> PaymentError(TRUE, k)
      [] kind = "nonretryable" -> PaymentError(FALSE, k)
      [] OTHER                 -> OtherError(k)

\* the response of the k-th invocation: nil, or a response of its own
FnResp(hasResp, k) == IF hasResp THEN k ELSE NilResp

(***************************************************************************)
(* RetryExecutor.ExecutePayment                                            *)
(***************************************************************************)
InitRetryVars ==
    /\ MaxAttempts \in 0..MaxAttemptsBound
    /\ pc = "idle"
    /\ attempt = 0
    /\ lastErr = NilErr
    /\ lastResp = NilResp
    /\ ctxDone = FALSE
    /\ ret = [resp |-> NilResp, err |-> NilErr]
    /\ calls = 0
    /\ sleeps = 0
    /\ outcomes = <<>>
    /\ cancelAt = [pc |-> "none", calls |-> 0]

\* return from ExecutePayment
Return(resp, err) ==
    /\ pc' = "done"
    /\ ret' = [resp |-> resp, err |-> err]

\* the loop admits one attempt more than configured
LoopHeadExtraAttempt(a, resp, err) ==
    IF a <= MaxAttempts + 1
    THEN /\ pc' = "check"
         /\ ret' = ret
    ELSE Return(resp, err)

\* the loop stops one attempt early
LoopHeadFewerAttempts(a, resp, err) ==
    IF a < MaxAttempts
    THEN /\ pc' = "check"
         /\ ret' = ret
    ELSE Return(resp, err)

\* head of the for loop: attempt <= re.config.MaxAttempts, else fall out of
\* the loop to the final return
LoopHead(a, resp, err) ==
    IF a <= MaxAttempts
    THEN /\ pc' = "check"
         /\ ret' = ret
    ELSE Return(resp, err)

\* entry: var lastErr, lastResp; attempt := 1
ExecutePaymentEnter ==
    /\ pc = "idle"
    /\ attempt' = 1
    /\ LoopHead(1, lastResp, lastErr)
    /\ UNCHANGED <<nonRetryVars, MaxAttempts, lastErr, lastResp, ctxDone, calls, sleeps,
                   outcomes, cancelAt>>

\* select { case <-ctx.Done(): return nil, ctx.Err(); default: }, then the
\* invocation of fn starts
CheckCtx ==
    /\ pc = "check"
    /\ IF ctxDone
       THEN /\ Return(NilResp, CtxErr)
            /\ calls' = calls
       ELSE /\ pc' = "call"
            /\ calls' = calls + 1
            /\ ret' = ret
    /\ UNCHANGED <<nonRetryVars, MaxAttempts, attempt, lastErr, lastResp, ctxDone, sleeps,
                   outcomes, cancelAt>>

\* a success hands out the response of the previous failure
OnSuccessStale(resp) == Return(lastResp, NilErr)

\* a success is dropped when the context was cancelled meanwhile
OnSuccessDiscardedOnCancel(resp) ==
    IF ctxDone THEN Return(NilResp, CtxErr) ELSE Return(resp, NilErr)

\* if err == nil { return resp, nil }
OnSuccess(resp) == Return(resp, NilErr)

\* every error is retried
StopsRetryNever(err) == FALSE

\* every error but a retryable *types.PaymentError ends the retries
StopsRetryUnlessRetryable(err) == ~(err.type = "PaymentError" /\ IsRetryable(err))

\* the error ends the retries: a *types.PaymentError that is not retryable
StopsRetry(err) == err.type = "PaymentError" /\ ~IsRetryable(err)

\* the last attempt is not recognised
IsLastAttemptNever(a) == FALSE

\* if attempt == re.config.MaxAttempts { break }
IsLastAttempt(a) == a = MaxAttempts

\* fn returns (resp, err); the code up to the backoff select
FnReturnsAs(kind, hasResp) ==
    LET resp == FnResp(hasResp, calls)
        err  == FnError(kind, calls)
    IN  /\ pc = "call"
        /\ outcomes' = Append(outcomes, [kind |-> kind, resp |-> resp])
        /\ IF err = NilErr
           THEN /\ OnSuccess(resp)
                /\ UNCHANGED <<lastErr, lastResp, sleeps>>
           ELSE /\ lastErr' = err
                /\ lastResp' = resp
                /\ IF StopsRetry(err)
                   THEN /\ Return(resp, err)
                        /\ sleeps' = sleeps
                   ELSE IF IsLastAttempt(attempt)
                        THEN /\ Return(resp, err)
                             /\ sleeps' = sleeps
                        ELSE /\ pc' = "sleep"
                             /\ sleeps' = sleeps + 1
                             /\ ret' = ret
        /\ UNCHANGED <<nonRetryVars, MaxAttempts, attempt, ctxDone, calls, cancelAt>>

FnReturns == \E kind \in FnKinds, hasResp \in BOOLEAN : FnReturnsAs(kind, hasResp)

\* case <-time.After(delay): the loop continues with attempt++
SleepElapsed ==
    /\ pc = "sleep"
    /\ attempt' = attempt + 1
    /\ LoopHead(attempt + 1, lastResp, lastErr)
    /\ UNCHANGED <<nonRetryVars, MaxAttempts, lastErr, lastResp, ctxDone, calls, sleeps,
                   outcomes, cancelAt>>

\* a cancelled sleep returns the error of the failed attempt
SleepCancelledLastErr ==
    /\ pc = "sleep"
    /\ ctxDone
    /\ Return(lastResp, lastErr)
    /\ UNCHANGED <<nonRetryVars, MaxAttempts, attempt, lastErr, lastResp, ctxDone,
                   calls, sleeps, outcomes, cancelAt>>

\* case <-ctx.Done(): return nil, ctx.Err()
SleepCancelled ==
    /\ pc = "sleep"
    /\ ctxDone
    /\ Return(NilResp, CtxErr)
    /\ UNCHANGED <<nonRetryVars, MaxAttempts, attempt, lastErr, lastResp, ctxDone, calls,
                   sleeps, outcomes, cancelAt>>

\* the caller's context is cancelled or its deadline passes
Cancel ==
    /\ ~ctxDone
    /\ pc # "done"
    /\ ctxDone' = TRUE
    /\ cancelAt' = [pc |-> pc, calls |-> calls]
    /\ UNCHANGED <<nonRetryVars, MaxAttempts, pc, attempt, lastErr, lastResp, ret, calls,
                   sleeps, outcomes>>

ExecutePayment ==
    \/ ExecutePaymentEnter
    \/ CheckCtx
    \/ FnReturns
    \/ SleepElapsed
    \/ SleepCancelled

(***************************************************************************)
(* Credential caches: values.                                              *)
(***************************************************************************)
Procs == 1..NumProcs

\* session TTL in minutes: time.Now().Add(5 * time.Minute)
SessionTTL == 5

\* am.auth == nil
NoAuth == [nil |-> TRUE, AccessToken |-> 0, RefreshToken |-> 0, ExpiresIn |-> 0]

\* a decoded AuthResponse; token 0 is the empty string
AuthResponse(access, refresh, expiresIn) ==
    [nil |-> FALSE, AccessToken |-> access, RefreshToken |-> refresh,
     ExpiresIn |-> expiresIn]

\* no entry for the merchant in sm.sessionCache
NoEntry == [exists |-> FALSE, sessionID |-> 0, expiresAt |-> 0]

\* &sessionCacheEntry{sessionID, expiresAt}
sessionCacheEntry(id, exp) == [exists |-> TRUE, sessionID |-> id, expiresAt |-> exp]

\* the call a goroutine is executing (or has last executed): the operation,
\* the local variable sessionID of createSession, and observations: whether
\* the call sent an issuance request of its own, whether an issuance of the
\* same manager was in progress when it started, the number of credentials
\* issued before the last ClearCache that had returned when it started, the
\* validity left (expiry - now) of the credential it handed out, and whether
\* its cache check found an entry that had expired
NewCall(op, sawRefresh, clearMark) ==
    [op |-> op, sessionID |-> 0, ownIssue |-> FALSE, sawRefresh |-> sawRefresh,
     clearMark |-> clearMark, left |-> 0, expired |-> FALSE]

NoCall == NewCall("none", FALSE, 0)

\* (value, error) returned by a manager call; value 0 is the empty string
Result(val, err) == [val |-> val, err |-> err]

\* answers of the authentication endpoint: transport error, status other
\* than 200, body that is not JSON, or a JSON body
AuthReplies == {"transport", "status", "decode", "ok"}

\* answers of the session endpoint: transport error, status other than 200,
\* blank body, body "NOK", or a session id
SessionReplies == {"transport", "status", "blank", "NOK", "ok"}

\* (am *AuthManager) isTokenExpired()
isTokenExpired(a) == IF a.nil THEN TRUE ELSE FALSE

\* the condition of GetAccessToken: am.auth != nil && !am.isTokenExpired()
TokenUsable(a) == ~a.nil /\ ~isTokenExpired(a)

\* an entry still handed out at its expiry instant
SessionUsableAtExpiry(e, t) == e.exists /\ t <= e.expiresAt

\* the condition of GetSessionID: exists && time.Now().Before(entry.expiresAt)
SessionUsable(e, t) == e.exists /\ t < e.expiresAt

\* goroutines with an authentication request in flight
AuthInFlight == {p \in Procs : gpc[p] \in {"au_http", "rt_http"}}

\* goroutines with a session request in flight
SessionInFlight == {p \in Procs : gpc[p] = "cs_http"}

\* goroutines inside createSession
SessionRefreshing == {p \in Procs : gpc[p] \in {"cs_http", "cs_lock", "cs_store"}}

\* the instant the cached token's announced lifetime ends
AuthExpiry == hist.authIssuedAt + auth.ExpiresIn

InitCredVars ==
    /\ auth = NoAuth
    /\ authWriter = 0
    /\ authReaders = {}
    /\ sessionCache = NoEntry
    /\ cacheWriter = 0
    /\ cacheReaders = {}
    /\ now = 0
    /\ gpc = [p \in Procs |-> "idle"]
    /\ call = [p \in Procs |-> NoCall]
    /\ result = [p \in Procs |-> Result(0, "none")]
    /\ started = 0
    /\ issued = 0
    /\ hist = [authHttp |-> 0, sessHttp |-> 0, failures |-> 0,
               authEmptyGets |-> 0, sessEmptyGets |-> 0,
               sessEverCached |-> FALSE, authIssuedAt |-> 0, clearMark |-> 0]

\* a goroutine returns from its call
Finish(p, val, err) ==
    /\ gpc' = [gpc EXCEPT ![p] = "idle"]
    /\ result' = [result EXCEPT ![p] = Result(val, err)]

Goto(p, label) ==
    /\ gpc' = [gpc EXCEPT ![p] = label]
    /\ result' = result

(***************************************************************************)
(* AuthManager                                                             *)
(***************************************************************************)
\* a goroutine calls GetAccessToken
CallGetAccessToken(p) ==
    /\ gpc[p] = "idle"
    /\ started < MaxCalls
    /\ started' = started + 1
    /\ call' = [call EXCEPT ![p] = NewCall("GetAccessToken", AuthInFlight # {}, 0)]
    /\ hist' = [hist EXCEPT !.authEmptyGets =
                    IF TokenUsable(auth) THEN @ ELSE @ + 1]
    /\ Goto(p, "gat_rlock")
    /\ UNCHANGED <<nonCredVars, auth, authWriter, authReaders, sessionCache, cacheWriter,
                   cacheReaders, now, issued>>

\* am.authMutex.RLock()
GetAccessTokenRLock(p) ==
    /\ gpc[p] = "gat_rlock"
    /\ authWriter = 0
    /\ authReaders' = authReaders \cup {p}
    /\ Goto(p, "gat_check")
    /\ UNCHANGED <<nonCredVars, auth, authWriter, sessionCache, cacheWriter, cacheReaders,
                   now, call, started, issued, hist>>

\* the cache check of GetAccessToken, then RUnlock on both paths
GetAccessTokenCheck(p) ==
    /\ gpc[p] = "gat_check"
    /\ authReaders' = authReaders \ {p}
    /\ IF TokenUsable(auth)
       THEN /\ Finish(p, auth.AccessToken, "nil")
            /\ call' = [call EXCEPT ![p].left = AuthExpiry - now]
       ELSE /\ Goto(p, "au_lock")
            /\ call' = call
    /\ UNCHANGED <<nonCredVars, auth, authWriter, sessionCache, cacheWriter, cacheReaders,
                   now, started, issued, hist>>

\* authenticate: am.authMutex.Lock(), then authenticateUnsafe sends its
\* request
AuthenticateLock(p) ==
    /\ gpc[p] = "au_lock"
    /\ authWriter = 0
    /\ authReaders = {}
    /\ authWriter' = p
    /\ hist' = [hist EXCEPT !.authHttp = @ + 1]
    /\ call' = [call EXCEPT ![p].ownIssue = TRUE]
    /\ Goto(p, "au_http")
    /\ UNCHANGED <<nonCredVars, auth, authReaders, sessionCache, cacheWriter, cacheReaders,
                   now, started, issued>>

\* a goroutine calls RefreshToken
CallRefreshToken(p) ==
    /\ gpc[p] = "idle"
    /\ started < MaxCalls
    /\ started' = started + 1
    /\ call' = [call EXCEPT ![p] = NewCall("RefreshToken", FALSE, 0)]
    /\ Goto(p, "rt_lock")
    /\ UNCHANGED <<nonCredVars, auth, authWriter, authReaders, sessionCache, cacheWriter,
                   cacheReaders, now, issued, hist>>

\* RefreshToken: am.authMutex.Lock(); without a refresh token it calls
\* authenticateUnsafe, otherwise it sends the refresh_token grant
RefreshTokenLock(p) ==
    /\ gpc[p] = "rt_lock"
    /\ authWriter = 0
    /\ authReaders = {}
    /\ authWriter' = p
    /\ hist' = [hist EXCEPT !.authHttp = @ + 1]
    /\ call' = [call EXCEPT ![p].ownIssue = TRUE]
    /\ IF auth.nil \/ auth.RefreshToken = 0
       THEN Goto(p, "au_http")
       ELSE Goto(p, "rt_http")
    /\ UNCHANGED <<nonCredVars, auth, authReaders, sessionCache, cacheWriter, cacheReaders,
                   now, started, issued>>

\* a failed request wipes the cached token
AuthReplyForgetsOnFailure(p, reply, emptyAccess, withRefresh, expiresIn) ==
    /\ gpc[p] \in {"au_http", "rt_http"}
    /\ authWriter' = 0
    /\ IF reply = "ok"
       THEN LET access  == IF emptyAccess THEN 0 ELSE issued + 1
                refresh == IF withRefresh THEN issued + 1 ELSE 0
            IN  /\ auth' = AuthResponse(access, refresh, expiresIn)
                /\ issued' = issued + 1
                /\ hist' = [hist EXCEPT !.authIssuedAt = now]
                /\ call' = [call EXCEPT ![p].left = expiresIn]
                /\ IF call[p].op = "GetAccessToken"
                   THEN Finish(p, access, "nil")
                   ELSE Finish(p, 0, "nil")
       ELSE /\ auth' = NoAuth
            /\ issued' = issued
            /\ hist' = [hist EXCEPT !.failures = @ + 1]
            /\ call' = call
            /\ Finish(p, 0, reply)
    /\ UNCHANGED <<nonCredVars, authReaders, sessionCache, cacheWriter, cacheReaders, now,
                   started>>

\* the error paths return without am.authMutex.Unlock()
AuthReplyKeepsLockOnError(p, reply, emptyAccess, withRefresh, expiresIn) ==
    /\ gpc[p] \in {"au_http", "rt_http"}
    /\ authWriter' = IF reply = "ok" THEN 0 ELSE authWriter
    /\ IF reply = "ok"
       THEN LET access  == IF emptyAccess THEN 0 ELSE issued + 1
                refresh == IF withRefresh THEN issued + 1 ELSE 0
            IN  /\ auth' = AuthResponse(access, refresh, expiresIn)
                /\ issued' = issued + 1
                /\ hist' = [hist EXCEPT !.authIssuedAt = now]
                /\ call' = [call EXCEPT ![p].left = expiresIn]
                /\ IF call[p].op = "GetAccessToken"
                   THEN Finish(p, access, "nil")
                   ELSE Finish(p, 0, "nil")
       ELSE /\ auth' = auth
            /\ issued' = issued
            /\ hist' = [hist EXCEPT !.failures = @ + 1]
            /\ call' = call
            /\ Finish(p, 0, reply)
    /\ UNCHANGED <<nonCredVars, authReaders, sessionCache, cacheWriter, cacheReaders, now,
                   started>>

\* the authentication endpoint answers a goroutine inside authenticateUnsafe
\* or inside the refresh branch of RefreshToken; the deferred Unlock runs on
\* every return
AuthReply(p, reply, emptyAccess, withRefresh, expiresIn) ==
    /\ gpc[p] \in {"au_http", "rt_http"}
    /\ authWriter' = 0
    /\ IF reply = "ok"
       THEN LET access  == IF emptyAccess THEN 0 ELSE issued + 1
                refresh == IF withRefresh THEN issued + 1 ELSE 0
            IN  /\ auth' = AuthResponse(access, refresh, expiresIn)
                /\ issued' = issued + 1
                /\ hist' = [hist EXCEPT !.authIssuedAt = now]
                /\ call' = [call EXCEPT ![p].left = expiresIn]
                /\ IF call[p].op = "GetAccessToken"
                   THEN Finish(p, access, "nil")
                   ELSE Finish(p, 0, "nil")
       ELSE /\ auth' = auth
            /\ issued' = issued
            /\ hist' = [hist EXCEPT !.failures = @ + 1]
            /\ call' = call
            /\ Finish(p, 0, reply)
    /\ UNCHANGED <<nonCredVars, authReaders, sessionCache, cacheWriter, cacheReaders, now,
                   started>>

\* the answers the authentication endpoint can give; only a JSON body
\* carries tokens and a lifetime
AuthAnswers ==
    {<<r, FALSE, FALSE, 0>> : r \in AuthReplies \ {"ok"}}
        \cup ({"ok"} \X BOOLEAN \X BOOLEAN \X (1..MaxExpiresIn))

AuthManagerStep(p) ==
    \/ CallGetAccessToken(p)
    \/ GetAccessTokenRLock(p)
    \/ GetAccessTokenCheck(p)
    \/ AuthenticateLock(p)
    \/ CallRefreshToken(p)
    \/ RefreshTokenLock(p)
    \/ \E a \in AuthAnswers : AuthReply(p, a[1], a[2], a[3], a[4])

(***************************************************************************)
(* SessionManager                                                          *)
(***************************************************************************)
\* a goroutine calls GetSessionID
CallGetSessionID(p) ==
    /\ gpc[p] = "idle"
    /\ started < MaxCalls
    /\ started' = started + 1
    /\ call' = [call EXCEPT ![p] = NewCall("GetSessionID", SessionRefreshing # {},
                                            hist.clearMark)]
    /\ hist' = [hist EXCEPT !.sessEmptyGets =
                    IF hist.sessEverCached THEN @ ELSE @ + 1]
    /\ Goto(p, "gs_rlock")
    /\ UNCHANGED <<nonCredVars, auth, authWriter, authReaders, sessionCache, cacheWriter,
                   cacheReaders, now, issued>>

\* sm.cacheMutex.RLock()
GetSessionIDRLock(p) ==
    /\ gpc[p] = "gs_rlock"
    /\ cacheWriter = 0
    /\ cacheReaders' = cacheReaders \cup {p}
    /\ Goto(p, "gs_check")
    /\ UNCHANGED <<nonCredVars, auth, authWriter, authReaders, sessionCache, cacheWriter,
                   now, call, started, issued, hist>>

\* the cache check of GetSessionID, then RUnlock on both paths; on a miss
\* createSession sends its request, holding no lock
GetSessionIDCheck(p) ==
    /\ gpc[p] = "gs_check"
    /\ cacheReaders' = cacheReaders \ {p}
    /\ IF SessionUsable(sessionCache, now)
       THEN /\ Finish(p, sessionCache.sessionID, "nil")
            /\ call' = [call EXCEPT ![p].left = sessionCache.expiresAt - now]
            /\ hist' = hist
       ELSE /\ Goto(p, "cs_http")
            /\ call' = [call EXCEPT ![p].ownIssue = TRUE,
                                     ![p].expired = sessionCache.exists]
            /\ hist' = [hist EXCEPT !.sessHttp = @ + 1]
    /\ UNCHANGED <<nonCredVars, auth, authWriter, authReaders, sessionCache, cacheWriter,
                   now, started, issued>>

\* the session endpoint answers a goroutine inside createSession
SessionReply(p, reply) ==
    /\ gpc[p] = "cs_http"
    /\ IF reply = "ok"
       THEN /\ issued' = issued + 1
            /\ call' = [call EXCEPT ![p].sessionID = issued + 1]
            /\ Goto(p, "cs_lock")
            /\ hist' = hist
       ELSE /\ issued' = issued
            /\ call' = call
            /\ Finish(p, 0, reply)
            /\ hist' = [hist EXCEPT !.failures = @ + 1]
    /\ UNCHANGED <<nonCredVars, auth, authWriter, authReaders, sessionCache, cacheWriter,
                   cacheReaders, now, started>>

\* createSession: sm.cacheMutex.Lock()
CreateSessionLock(p) ==
    /\ gpc[p] = "cs_lock"
    /\ cacheWriter = 0
    /\ cacheReaders = {}
    /\ cacheWriter' = p
    /\ Goto(p, "cs_store")
    /\ UNCHANGED <<nonCredVars, auth, authWriter, authReaders, sessionCache, cacheReaders,
                   now, call, started, issued, hist>>

\* createSession: the entry is stored with expiresAt = now + 5 minutes, then
\* Unlock and return
CreateSessionStore(p) ==
    /\ gpc[p] = "cs_store"
    /\ cacheWriter = p
    /\ sessionCache' = sessionCacheEntry(call[p].sessionID, now + SessionTTL)
    /\ cacheWriter' = 0
    /\ hist' = [hist EXCEPT !.sessEverCached = TRUE]
    /\ call' = [call EXCEPT ![p].left = sessionCache'.expiresAt - now]
    /\ Finish(p, call[p].sessionID, "nil")
    /\ UNCHANGED <<nonCredVars, auth, authWriter, authReaders, cacheReaders, now,
                   started, issued>>

\* a goroutine calls ClearCache
CallClearCache(p) ==
    /\ gpc[p] = "idle"
    /\ started < MaxCalls
    /\ started' = started + 1
    /\ call' = [call EXCEPT ![p] = NewCall("ClearCache", FALSE, 0)]
    /\ Goto(p, "cc_lock")
    /\ UNCHANGED <<nonCredVars, auth, authWriter, authReaders, sessionCache, cacheWriter,
                   cacheReaders, now, issued, hist>>

\* ClearCache: sm.cacheMutex.Lock()
ClearCacheLock(p) ==
    /\ gpc[p] = "cc_lock"
    /\ cacheWriter = 0
    /\ cacheReaders = {}
    /\ cacheWriter' = p
    /\ Goto(p, "cc_clear")
    /\ UNCHANGED <<nonCredVars, auth, authWriter, authReaders, sessionCache, cacheReaders,
                   now, call, started, issued, hist>>

\* ClearCache: the map is replaced by an empty one; the deferred Unlock runs
ClearCacheClear(p) ==
    /\ gpc[p] = "cc_clear"
    /\ cacheWriter = p
    /\ sessionCache' = NoEntry
    /\ cacheWriter' = 0
    /\ hist' = [hist EXCEPT !.clearMark = issued]
    /\ Finish(p, 0, "nil")
    /\ UNCHANGED <<nonCredVars, auth, authWriter, authReaders, cacheReaders, now, call,
                   started, issued>>

SessionManagerStep(p) ==
    \/ CallGetSessionID(p)
    \/ GetSessionIDRLock(p)
    \/ GetSessionIDCheck(p)
    \/ \E reply \in SessionReplies : SessionReply(p, reply)
    \/ CreateSessionLock(p)
    \/ CreateSessionStore(p)
    \/ CallClearCache(p)
    \/ ClearCacheLock(p)
    \/ ClearCacheClear(p)

\* the wall clock advances by a minute
Tick ==
    /\ now < MaxTime
    /\ now' = now + 1
    /\ UNCHANGED <<nonCredVars, auth, authWriter, authReaders, sessionCache, cacheWriter,
                   cacheReaders, gpc, call, result, started, issued, hist>>

(***************************************************************************)
(* B-PAY payment: values.                                                  *)
(***************************************************************************)
\* min := big.NewInt(1000)
PasscodeMin == 1000

\* max := big.NewInt(9999)
PasscodeMax == 9999

\* the bound handed to rand.Int: (max - min) + 1; rand.Int returns a uniform
\* number in [0, RandBound)
RandBound == (PasscodeMax - PasscodeMin) + 1

\* what rand.Int can return: a number, or an error
RandFailure == [n |-> 0, failed |-> TRUE]

RandNumber(i) == [n |-> i, failed |-> FALSE]

RandSource == {RandNumber(i) : i \in 0..(RandBound - 1)} \cup {RandFailure}

\* (*big.Int).String() of a number >= 0: its decimal digits, most
\* significant first, as a sequence of digits
RECURSIVE BigIntString(_)
BigIntString(v) ==
    IF v < 10 THEN <<v>> ELSE Append(BigIntString(v \div 10), v % 10)

\* (string, error) returned by generatePasscode
PasscodeResult(val, failed) == [val |-> val, failed |-> failed]

\* the number drawn is returned without adding min
generatePasscodeWithoutMin(r) ==
    IF r.failed
    THEN PasscodeResult(<<>>, TRUE)
    ELSE PasscodeResult(BigIntString(r.n), FALSE)

\* generatePasscode(), given what rand.Int returned
generatePasscode(r) ==
    IF r.failed
    THEN PasscodeResult(<<>>, TRUE)
    ELSE PasscodeResult(BigIntString(r.n + PasscodeMin), FALSE)

\* error code "1" is left to the default branch
convertErrorCodeToStatusWithoutOne(errorCode) ==
    CASE errorCode = "0" -> "success"
      [] errorCode = "2" -> "failed"
      [] errorCode = "4" -> "failed"
      [] OTHER           -> "pending"

\* convertErrorCodeToStatus(errorCode)
convertErrorCodeToStatus(errorCode) ==
    CASE errorCode = "0" -> "success"
      [] errorCode = "2" -> "failed"
      [] errorCode = "4" -> "failed"
      [] errorCode = "1" -> "failed"
      [] OTHER           -> "pending"

\* the goroutine that runs the payment
Payer == 1

\* DefaultRetryConfig().MaxAttempts, the configuration of the B-PAY provider
DefaultMaxAttempts == 3

\* passcodes a caller may put into the request ("" and "4321")
CallerPasscodes == {<<>>, <<4, 3, 2, 1>>}

\* the numbers rand.Int returns in a payment: both ends of its range
RandDraws == {RandNumber(0), RandNumber(RandBound - 1), RandFailure}

\* errorCode values of the provider's payment response
ErrorCodes == {"0", "1", "2", "4", "", "3", "999"}

\* how the provider's answer to the payment request arrives: httpClient.Do
\* fails (its deadline passed, or another transport error), or it returns a
\* response whose body decodes or not
PaymentReplies == {"transport", "timeout", "undecodable", "body"}

\* HTTPResponse.StatusCode of a response: a 2xx and a non-2xx one
StatusCodes == {200, 500}

\* no response, no status code
NoStatusCode == 0

\* *rimpay.PaymentRequest, the fields that matter here
PaymentRequest(reference, passcode) == [Reference |-> reference, Passcode |-> passcode]

\* a nil *rimpay.PaymentResponse
NoResponse ==
    [nil |-> TRUE, id |-> 0, Status |-> "", Reference |-> 0,
     Metadata |-> [error_code |-> "", passcode |-> <<>>]]

\* the caller's passcode is transmitted when there is one
NewBPayRequestKeepsCaller(req, passcode) ==
    [OperationID |-> req.Reference,
     Passcode |-> IF req.Passcode # <<>> THEN req.Passcode ELSE passcode]

\* bpayReq := &PaymentRequest{...}
NewBPayRequest(req, passcode) ==
    [OperationID |-> req.Reference, Passcode |-> passcode]

\* the response metadata carry the caller's passcode
NewResponseCallerPasscode(k, req, passcode, errorCode) ==
    [nil |-> FALSE, id |-> k, Status |-> convertErrorCodeToStatus(errorCode),
     Reference |-> req.Reference,
     Metadata |-> [error_code |-> errorCode, passcode |-> req.Passcode]]

\* response := &rimpay.PaymentResponse{...} of the k-th invocation
NewResponse(k, req, passcode, errorCode) ==
    [nil |-> FALSE, id |-> k, Status |-> convertErrorCodeToStatus(errorCode),
     Reference |-> req.Reference,
     Metadata |-> [error_code |-> errorCode, passcode |-> passcode]]

\* locals of ProcessPayment before it has done anything
NewInvocation ==
    [stage |-> "token", token |-> 0, passcode |-> <<>>, kind |-> "nil",
     response |-> NoResponse]

\* what is known of an invocation: whether it got a token, which one, and
\* whether that token was issued to it (rather than found cached), the
\* number rand.Int returned to it, the error code it reported and how many
\* credentials had been issued by then, and the provider's errorCode
NewLogEntry ==
    [gotToken |-> FALSE, token |-> 0, ownIssue |-> FALSE, draw |-> RandFailure,
     code |-> "", mark |-> 0, errorCode |-> ""]

InitBPayVars ==
    /\ bp = [NewInvocation EXCEPT !.stage = "idle"]
    /\ wire = <<>>
    /\ log = <<>>

InitPassVars ==
    /\ generated = [done |-> FALSE, ret |-> PasscodeResult(<<>>, FALSE)]

\* the state of the payment components while no payment is made
NoPayment ==
    /\ InitBPayVars
    /\ request = PaymentRequest(1, <<>>)

\* the state of the passcode generator while it is not under study
NoPasscode ==
    /\ InitPassVars
    /\ rnd = RandFailure

(***************************************************************************)
(* PaymentProcessor.ProcessPayment, the fn of the B-PAY provider's         *)
(* ExecutePayment, run by the goroutine Payer.                             *)
(***************************************************************************)
\* whatever went wrong is reported as a network error
FailAsNetworkError(kind, code) ==
    /\ bp' = [bp EXCEPT !.stage = "ret", !.kind = kind]
    /\ log' = [log EXCEPT ![Len(log)].code = "NETWORK_ERROR", ![Len(log)].mark = issued]

\* the error ProcessPayment is about to return
Fail(kind, code) ==
    /\ bp' = [bp EXCEPT !.stage = "ret", !.kind = kind]
    /\ log' = [log EXCEPT ![Len(log)].code = code, ![Len(log)].mark = issued]

\* ExecutePayment invokes fn: ProcessPayment starts and calls
\* pp.authManager.GetAccessToken(ctx)
BPayGetAccessToken ==
    /\ pc = "call"
    /\ Len(log) < calls
    /\ gpc[Payer] = "idle"
    /\ bp' = NewInvocation
    /\ log' = Append(log, NewLogEntry)
    /\ call' = [call EXCEPT ![Payer] = NewCall("GetAccessToken", AuthInFlight # {}, 0)]
    /\ Goto(Payer, "gat_rlock")
    /\ UNCHANGED <<retryVars, passVars, restVars, request, wire, auth, authWriter, authReaders,
                   sessionCache, cacheWriter, cacheReaders, now, started, issued, hist>>

\* the Payer's steps inside GetAccessToken
PayerInAuthManager ==
    /\ gpc[Payer] # "idle"
    /\ AuthManagerStep(Payer)

\* GetAccessToken has returned: its error ends the invocation; otherwise the
\* passcode is generated, bpayReq is built and marshalled, and the payment
\* request is sent (json.Marshal of a struct of strings does not fail)
BPayAfterToken(r) ==
    /\ bp.stage = "token"
    /\ gpc[Payer] = "idle"
    /\ IF result[Payer].err # "nil"
       THEN /\ r = RandFailure
            /\ Fail("retryable", "AUTHENTICATION_FAILED")
            /\ wire' = wire
       ELSE LET gen == generatePasscode(r)
                k   == Len(log)
            IN  IF gen.failed
                THEN /\ bp' = [bp EXCEPT !.stage = "ret", !.kind = "nonretryable",
                                         !.token = result[Payer].val]
                     /\ log' = [log EXCEPT ![k].code = "INVALID_REQUEST",
                                           ![k].mark = issued,
                                           ![k].gotToken = TRUE,
                                           ![k].token = result[Payer].val,
                                           ![k].ownIssue = call[Payer].ownIssue]
                     /\ wire' = wire
                ELSE /\ bp' = [bp EXCEPT !.stage = "http",
                                         !.token = result[Payer].val,
                                         !.passcode = gen.val]
                     /\ log' = [log EXCEPT ![k].draw = r,
                                           ![k].gotToken = TRUE,
                                           ![k].token = result[Payer].val,
                                           ![k].ownIssue = call[Payer].ownIssue]
                     /\ wire' = Append(wire, [attempt |-> k,
                                              token |-> result[Payer].val,
                                              body |-> NewBPayRequest(request, gen.val)])
    /\ UNCHANGED <<retryVars, credVars, passVars, restVars, request>>

\* the error code ProcessPayment and CheckPaymentStatus report when
\* pp.httpClient.Do returns an error, whichever it is
ErrorOfDo(reply) == "NETWORK_ERROR"

\* what ProcessPayment makes of the answer to its k-th payment request: the
\* kind of error, its code, and the response.  The status code of the HTTP
\* response is not looked at
PaymentReplyResult(reply, statusCode, errorCode, k, req, passcode) ==
    CASE reply \in {"transport", "timeout"} ->
           [kind |-> "retryable", code |-> ErrorOfDo(reply), response |-> NoResponse]
      [] reply = "undecodable" ->
           [kind |-> "nonretryable", code |-> "PROVIDER_ERROR", response |-> NoResponse]
      [] OTHER ->
           [kind |-> "nil", code |-> "",
            response |-> NewResponse(k, req, passcode, errorCode)]

\* pp.httpClient.Do returns, and the body is decoded and converted
BPayPaymentReply(reply, statusCode, errorCode) ==
    /\ bp.stage = "http"
    /\ LET k == Len(log)
           r == PaymentReplyResult(reply, statusCode, errorCode, k, request, bp.passcode)
       IN  /\ bp' = [bp EXCEPT !.stage = "ret", !.kind = r.kind, !.response = r.response]
           /\ log' = IF r.kind = "nil"
                     THEN [log EXCEPT ![k].errorCode = errorCode]
                     ELSE [log EXCEPT ![k].code = r.code, ![k].mark = issued]
    /\ UNCHANGED <<retryVars, credVars, passVars, restVars, request, wire>>

\* the answers of the payment endpoint; only a response has a status code
\* and only a decoded body has an errorCode
PaymentAnswers ==
    {<<r, NoStatusCode, "">> : r \in {"transport", "timeout"}}
        \cup {<<"undecodable", c, "">> : c \in StatusCodes}
        \cup {<<"body", c, e>> : c \in StatusCodes, e \in ErrorCodes}

\* the answers met under the retry executor: a transport error, and the
\* responses of status 200
RetriedAnswers ==
    {a \in PaymentAnswers : a[1] # "timeout" /\ a[2] \in {NoStatusCode, 200}}

\* ProcessPayment returns to ExecutePayment
BPayReturn ==
    /\ bp.stage = "ret"
    /\ Len(log) = calls
    /\ FnReturnsAs(bp.kind, ~bp.response.nil)

\* Provider.IsAvailable, called by another goroutine: GetAccessToken
IsAvailable(p) ==
    \/ CallGetAccessToken(p)
    \/ gpc[p] # "idle" /\ AuthManagerStep(p)

ProcessPayment ==
    \/ BPayGetAccessToken
    \/ PayerInAuthManager
    \/ \E r \in RandDraws : BPayAfterToken(r)
    \/ \E a \in RetriedAnswers : BPayPaymentReply(a[1], a[2], a[3])
    \/ BPayReturn

(***************************************************************************)
(* generatePasscode on its own.                                            *)
(***************************************************************************)
GeneratePasscode ==
    /\ ~generated.done
    /\ generated' = [done |-> TRUE, ret |-> generatePasscode(rnd)]
    /\ UNCHANGED <<retryVars, credVars, bpayVars, restVars, rnd>>

(***************************************************************************)
(* TransactionStatus and the MASRVI webhook: values.                       *)
(***************************************************************************)
\* the values of rimpay.PaymentStatus
PaymentStatuses == {"pending", "success", "failed", "cancelled", "expired"}

\* (ps PaymentStatus) IsCompleted()
IsCompleted(ps) ==
    ps = "success" \/ ps = "failed" \/ ps = "cancelled" \/ ps = "expired"

\* rimpay.NewPaymentError(code, message, provider, retryable)
NewPaymentError(code, retryable) ==
    [type |-> "PaymentError", Code |-> code, Retryable |-> retryable]

\* types.NewValidationError(field, message): Retryable keeps its zero value
NewValidationError == NewPaymentError("VALIDATION_ERROR", FALSE)

\* an error that is no *PaymentError (fmt.Errorf, errors.New)
PlainError == [type |-> "error", Code |-> "", Retryable |-> FALSE]

\* the nil error of the client and adapter operations
NoError == [type |-> "nil", Code |-> "", Retryable |-> FALSE]

\* rimpay.StatusEvent
StatusEvent(status, timestamp, message) ==
    [Status |-> status, Timestamp |-> timestamp, Message |-> message]

\* a nil *StatusEvent
NoEvent == [nil |-> TRUE, event |-> StatusEvent("", 0, "")]

\* a nil *rimpay.TransactionStatus
NoTransactionStatus ==
    [nil |-> TRUE, TransactionID |-> "", Status |-> "", Reference |-> "",
     Message |-> "", LastUpdated |-> 0, Events |-> <<>>]

\* &rimpay.TransactionStatus{...} without events
TransactionStatus(id, status, reference, message, lastUpdated) ==
    [nil |-> FALSE, TransactionID |-> id, Status |-> status, Reference |-> reference,
     Message |-> message, LastUpdated |-> lastUpdated, Events |-> <<>>]

\* a terminal status is kept: the event is recorded only
AddEventKeepsTerminal(t, status, message, time) ==
    [t EXCEPT !.Events = Append(@, StatusEvent(status, time, message)),
              !.Status = IF IsCompleted(@) THEN @ ELSE status,
              !.LastUpdated = time]

\* the new event is put in front
AddEventInFront(t, status, message, time) ==
    [t EXCEPT !.Events = <<StatusEvent(status, time, message)>> \o @,
              !.Status = status,
              !.LastUpdated = time]

\* (ts *TransactionStatus) AddEvent(status, message), at the instant time
AddEvent(t, status, message, time) ==
    [t EXCEPT !.Events = Append(@, StatusEvent(status, time, message)),
              !.Status = status,
              !.LastUpdated = time]

\* (ts *TransactionStatus) GetLatestEvent()
GetLatestEvent(t) ==
    IF Len(t.Events) = 0
    THEN NoEvent
    ELSE [nil |-> FALSE, event |-> t.Events[Len(t.Events)]]

\* status tokens a notification can carry
StatusTokens == {"Ok", "NOK", "OK", ""}

\* *NotificationData, the fields that matter here; nil is no notification
NotificationData(status, error) ==
    [nil |-> FALSE, Status |-> status, Error |-> error, PayID |-> "pay-1",
     PurchaseRef |-> "ref-1"]

NoNotification == [NotificationData("", "") EXCEPT !.nil = TRUE]

Notifications ==
    {NotificationData(s, e) : s \in StatusTokens, e \in {"", "declined"}}
        \cup {NoNotification}

\* every token but "Ok" is read as a failure
ToPaymentStatusOkOrFailed(nd) ==
    CASE nd.Status = "Ok" -> "success"
      [] OTHER            -> "failed"

\* (nd *NotificationData) ToPaymentStatus()
ToPaymentStatus(nd) ==
    CASE nd.Status = "Ok"  -> "success"
      [] nd.Status = "NOK" -> "failed"
      [] OTHER             -> "pending"

\* (pp *PaymentProcessor) HandleNotification(notification), at the instant
\* time: the (*TransactionStatus, error) it returns
HandleNotification(notification, time) ==
    IF notification.nil
    THEN [ts |-> NoTransactionStatus, err |-> NewValidationError]
    ELSE LET status  == ToPaymentStatus(notification)
             message == IF status = "failed" /\ notification.Error # ""
                        THEN notification.Error
                        ELSE "Payment notification received"
             created == TransactionStatus(notification.PayID, status,
                                          notification.PurchaseRef, message, time)
         IN  [ts |-> AddEvent(created, status, message, time), err |-> NoError]

InitTxnVars ==
    /\ ts = NoTransactionStatus
    /\ hn = [calls |-> 0, arg |-> NoNotification,
             ret |-> [ts |-> NoTransactionStatus, err |-> NoError]]

(***************************************************************************)
(* A transaction's status: webhook notifications and events.               *)
(***************************************************************************)
\* the webhook delivers a notification (or nothing); the TransactionStatus
\* returned becomes the status of the transaction
CallHandleNotification(notification) ==
    /\ hn.calls < MaxNotifications
    /\ LET r == HandleNotification(notification, now)
       IN  /\ hn' = [calls |-> hn.calls + 1, arg |-> notification, ret |-> r]
           /\ ts' = IF r.err = NoError THEN r.ts ELSE ts
    /\ UNCHANGED nonTxnVars

\* the caller records a status event on the transaction
CallAddEvent(status, message) ==
    /\ ~ts.nil
    /\ Len(ts.Events) < MaxEvents
    /\ ts' = AddEvent(ts, status, message, now)
    /\ UNCHANGED <<nonTxnVars, hn>>

(***************************************************************************)
(* What the provider adapters hand back.                                   *)
(***************************************************************************)
\* a status the provider reports as "TC" is passed on as cancelled
convertTransactionStatusWithCancelled(status) ==
    CASE status = "TS" -> "success"
      [] status = "TF" -> "failed"
      [] status = "TC" -> "cancelled"
      [] OTHER         -> "pending"

\* convertTransactionStatus(status)
convertTransactionStatus(status) ==
    CASE status = "TS" -> "success"
      [] status = "TF" -> "failed"
      [] status = "TA" -> "pending"
      [] OTHER         -> "pending"

\* values of CheckTransactionResponse.Status
CheckStatuses == {"TS", "TF", "TA", "", "TC", "TE"}

\* what the status endpoint of B-PAY can answer
CheckReplies == {"notoken", "transport", "timeout", "undecodable", "body"}

\* the answers of the status endpoint, as those of the payment endpoint
CheckAnswers ==
    {<<r, NoStatusCode, "">> : r \in {"notoken", "transport", "timeout"}}
        \cup {<<"undecodable", c, "">> : c \in StatusCodes}
        \cup {<<"body", c, t>> : c \in StatusCodes, t \in CheckStatuses}

\* (pp *PaymentProcessor) CheckPaymentStatus(ctx, transactionID) of B-PAY, at
\* the instant time: the (*TransactionStatus, error) it returns.  The status
\* code of the HTTP response is not looked at
CheckPaymentStatus(transactionID, reply, statusCode, checkStatus, time) ==
    CASE reply = "notoken" ->
           [ts |-> NoTransactionStatus,
            err |-> NewPaymentError("AUTHENTICATION_FAILED", TRUE)]
      [] reply \in {"transport", "timeout"} ->
           [ts |-> NoTransactionStatus,
            err |-> NewPaymentError(ErrorOfDo(reply), TRUE)]
      [] reply = "undecodable" ->
           [ts |-> NoTransactionStatus,
            err |-> NewPaymentError("PROVIDER_ERROR", FALSE)]
      [] OTHER ->
           [ts |-> TransactionStatus("bpay-txn", convertTransactionStatus(checkStatus),
                                     transactionID, "", time),
            err |-> NoError]

\* pp.baseURL of the MASRVI processor, possibly empty
BaseURLs == {"", "https://masrvi.example"}

\* a nil *rimpay.PaymentResponse of MASRVI
NoMasrviResponse ==
    [nil |-> TRUE, TransactionID |-> 0, Status |-> "", Reference |-> 0,
     PaymentURL |-> <<>>, session_id |-> 0]

\* the payment is reported as done
MasrviResponseSuccess(req, sessionID, baseURL) ==
    [nil |-> FALSE, TransactionID |-> req.Reference, Status |-> "success",
     Reference |-> req.Reference,
     PaymentURL |-> <<baseURL, "/online/online.php">>, session_id |-> sessionID]

\* response := &rimpay.PaymentResponse{...} of MASRVI's ProcessPayment; the
\* URL is the base URL followed by the path
MasrviResponse(req, sessionID, baseURL) ==
    [nil |-> FALSE, TransactionID |-> req.Reference, Status |-> "pending",
     Reference |-> req.Reference,
     PaymentURL |-> <<baseURL, "/online/online.php">>, session_id |-> sessionID]

\* (p *Provider) GetPaymentStatus(ctx, transactionID) of MASRVI, at the
\* instant time
MasrviGetPaymentStatus(transactionID, time) ==
    IF transactionID = ""
    THEN [ts |-> NoTransactionStatus, err |-> NewValidationError]
    ELSE [ts |-> TransactionStatus(transactionID, "pending", transactionID,
                                   "MASRVI payment status check", time),
          err |-> NoError]

\* one thing an adapter handed back (nil when it returned an error), with
\* the answer of the provider it was made from and the error returned
Emitted(adapter, isNil, status, reply, statusCode, err) ==
    [adapter |-> adapter, nil |-> isNil, status |-> status, reply |-> reply,
     statusCode |-> statusCode, err |-> err]

InitAdapterVars == emitted = <<>>

\* B-PAY ProcessPayment returns
EmitBPayProcessPayment(reply, statusCode, errorCode) ==
    /\ Len(emitted) < MaxEmitted
    /\ LET r == PaymentReplyResult(reply, statusCode, errorCode, 1,
                                   PaymentRequest(1, <<>>), <<1, 2, 3, 4>>)
           err == IF r.kind = "nil" THEN NoError
                  ELSE NewPaymentError(r.code, r.kind = "retryable")
       IN  emitted' = Append(emitted, Emitted("bpay.ProcessPayment", r.response.nil,
                                              r.response.Status, reply, statusCode, err))
    /\ UNCHANGED nonAdapterVars

\* B-PAY CheckPaymentStatus returns
EmitBPayCheckPaymentStatus(reply, statusCode, checkStatus) ==
    /\ Len(emitted) < MaxEmitted
    /\ LET r == CheckPaymentStatus("ref-1", reply, statusCode, checkStatus, now)
       IN  emitted' = Append(emitted, Emitted("bpay.CheckPaymentStatus", r.ts.nil,
                                              r.ts.Status, reply, statusCode, r.err))
    /\ UNCHANGED nonAdapterVars

\* MASRVI ProcessPayment returns: with a session, or with the error of
\* GetSessionID
EmitMasrviProcessPayment(gotSession, baseURL) ==
    /\ Len(emitted) < MaxEmitted
    /\ LET response == IF gotSession
                       THEN MasrviResponse(PaymentRequest(1, <<>>), 1, baseURL)
                       ELSE NoMasrviResponse
       IN  emitted' = Append(emitted,
                             Emitted("masrvi.ProcessPayment", response.nil,
                                     response.Status, "", NoStatusCode,
                                     IF gotSession THEN NoError
                                     ELSE NewPaymentError("PROVIDER_ERROR", TRUE)))
    /\ UNCHANGED nonAdapterVars

\* MASRVI GetPaymentStatus returns
EmitMasrviGetPaymentStatus(transactionID) ==
    /\ Len(emitted) < MaxEmitted
    /\ LET r == MasrviGetPaymentStatus(transactionID, now)
       IN  emitted' = Append(emitted, Emitted("masrvi.GetPaymentStatus", r.ts.nil,
                                              r.ts.Status, "", NoStatusCode, r.err))
    /\ UNCHANGED nonAdapterVars

\* MASRVI HandleNotification returns
EmitMasrviHandleNotification(notification) ==
    /\ Len(emitted) < MaxEmitted
    /\ LET r == HandleNotification(notification, now)
       IN  emitted' = Append(emitted, Emitted("masrvi.HandleNotification", r.ts.nil,
                                              r.ts.Status, "", NoStatusCode, r.err))
    /\ UNCHANGED nonAdapterVars

(***************************************************************************)
(* MASRVI ProcessPayment, called by the goroutine Payer.                   *)
(***************************************************************************)
\* the processor before any call, with its base URL
NewMasrviProcessor(baseURL) ==
    [stage |-> "idle", calls |-> 0, baseURL |-> baseURL,
     request |-> PaymentRequest(0, <<>>), response |-> NoMasrviResponse,
     err |-> NoError, transport |-> 0]

InitMasrviVars == mp = NewMasrviProcessor("")

\* ProcessPayment starts and calls pp.sessionManager.GetSessionID(ctx)
MasrviGetSessionID(req) ==
    /\ mp.stage \in {"idle", "ret"}
    /\ mp.calls < MaxPayments
    /\ gpc[Payer] = "idle"
    /\ mp' = [mp EXCEPT !.stage = "session", !.calls = @ + 1, !.request = req,
                        !.response = NoMasrviResponse, !.err = NoError,
                        !.transport = 0]
    /\ call' = [call EXCEPT ![Payer] = NewCall("GetSessionID", SessionRefreshing # {},
                                                hist.clearMark)]
    /\ hist' = [hist EXCEPT !.sessEmptyGets =
                    IF hist.sessEverCached THEN @ ELSE @ + 1]
    /\ Goto(Payer, "gs_rlock")
    /\ UNCHANGED <<nonMasrviVars, auth, authWriter, authReaders, sessionCache,
                   cacheWriter, cacheReaders, now, started, issued>>

\* the Payer's steps inside GetSessionID
PayerInSessionManager ==
    /\ gpc[Payer] # "idle"
    /\ SessionManagerStep(Payer)

\* GetSessionID has returned: its error ends the call; otherwise the form
\* data and the response are built and returned, and nothing is sent.  The
\* only transport call of the invocation is the session request, if
\* GetSessionID made one
MasrviAfterSession ==
    /\ mp.stage = "session"
    /\ gpc[Payer] = "idle"
    /\ mp' = [mp EXCEPT
                !.stage = "ret",
                !.transport = IF call[Payer].ownIssue THEN 1 ELSE 0,
                !.err = IF result[Payer].err # "nil"
                        THEN NewPaymentError("PROVIDER_ERROR", TRUE)
                        ELSE NoError,
                !.response = IF result[Payer].err # "nil"
                             THEN NoMasrviResponse
                             ELSE MasrviResponse(mp.request, result[Payer].val,
                                                 mp.baseURL)]
    /\ UNCHANGED <<nonMasrviVars, credVars>>

\* MASRVI's Provider.IsAvailable, called by another goroutine: GetSessionID
MasrviIsAvailable(p) ==
    \/ CallGetSessionID(p)
    \/ gpc[p] # "idle" /\ SessionManagerStep(p)

MasrviProcessPayment ==
    \/ \E r \in {1, 2} : MasrviGetSessionID(PaymentRequest(r, <<>>))
    \/ PayerInSessionManager
    \/ MasrviAfterSession

(***************************************************************************)
(* The client's entry points: values.                                      *)
(***************************************************************************)
\* the error ExecutePayment returns when its context is done: ctx.Err()
CancellationError == [type |-> "ctx", Code |-> "", Retryable |-> FALSE]

\* errors.ErrInvalidRequest and errors.ErrProviderNotFound: package-level
\* values of internal/errors, a package whose declarations are not at hand
SentinelError == [type |-> "sentinel", Code |-> "", Retryable |-> FALSE]

\* ExpiresAt == nil
NoExpiry == -1

\* longest reference the validators accept
MaxReferenceLength == 50

\* a payment request as the entry points read it: amount, presence of the
\* phone number, description, length of the reference, expiry instant, and
\* whether the callback and return URLs are given
ClientRequest(amount, phone, description, refLen, expiresAt, urls) ==
    [nil |-> FALSE, Amount |-> amount, PhoneNumber |-> phone,
     Description |-> description, RefLen |-> refLen, ExpiresAt |-> expiresAt,
     URLs |-> urls]

NoClientRequest == [ClientRequest(0, FALSE, "", 0, NoExpiry, FALSE) EXCEPT !.nil = TRUE]

\* reference lengths: none, a usual one, one too long
RefLens == {0, 10, MaxReferenceLength + 1}

\* requests given to the generic entry points
ClientRequests ==
    {ClientRequest(a, p, "order", r, e, TRUE) :
        a \in {-5, 0, 100}, p \in BOOLEAN, r \in RefLens, e \in {NoExpiry, 2}}
        \cup {NoClientRequest}

\* requests given to ProcessBPayPayment
BPayRequests ==
    {ClientRequest(a, p, d, r, NoExpiry, TRUE) :
        a \in {0, 100}, p \in BOOLEAN, d \in {"", "order"}, r \in RefLens}
        \cup {NoClientRequest}

\* requests given to ProcessMasrviPayment
MasrviRequests ==
    {ClientRequest(a, p, d, r, NoExpiry, u) :
        a \in {0, 100}, p \in BOOLEAN, d \in {"", "order"}, r \in RefLens,
        u \in BOOLEAN}
        \cup {NoClientRequest}

\* (v *Validator) ValidatePaymentRequest(request), for a request whose
\* currency and optional URLs are well formed
ValidatePaymentRequest(req) ==
    IF \/ req.nil
       \/ req.Amount = 0
       \/ req.Amount < 0
       \/ ~req.PhoneNumber
       \/ req.RefLen = 0
       \/ req.RefLen > MaxReferenceLength
    THEN NewValidationError
    ELSE NoError

\* (r *BPayPaymentRequest) Validate()
BPayValidate(req) ==
    IF \/ ~req.PhoneNumber
       \/ req.Amount = 0
       \/ req.Description = ""
       \/ req.RefLen = 0
       \/ req.RefLen > MaxReferenceLength
    THEN PlainError
    ELSE NoError

\* (r *MasrviPaymentRequest) Validate()
MasrviValidate(req) ==
    IF \/ ~req.PhoneNumber
       \/ req.Amount = 0
       \/ req.Description = ""
       \/ req.RefLen = 0
       \/ req.RefLen > MaxReferenceLength
       \/ ~req.URLs
    THEN PlainError
    ELSE NoError

\* a request with an expiry is never taken as expired
IsExpiredNever(req, time) == FALSE

\* (pr *PaymentRequest) IsExpired(), at the instant time
IsExpired(req, time) ==
    IF req.ExpiresAt = NoExpiry THEN FALSE ELSE time > req.ExpiresAt

\* what a provider's ProcessPayment returns through the retry executor: a
\* response, a PaymentError of one of the processors, or the cancellation
ProviderOutcomes ==
    {[resp |-> TRUE, err |-> NoError]}
        \cup {[resp |-> FALSE, err |-> NewPaymentError(c[1], c[2])] :
                 c \in {<<"AUTHENTICATION_FAILED", TRUE>>, <<"INVALID_REQUEST", FALSE>>,
                        <<"NETWORK_ERROR", TRUE>>, <<"PROVIDER_ERROR", FALSE>>,
                        <<"PROVIDER_ERROR", TRUE>>}}
        \cup {[resp |-> FALSE, err |-> CancellationError]}

\* one step of an entry point: what was called, what it answered, and when
Step(name, answer, time) == <<name, answer, time>>

\* the client between calls
InitClientVars ==
    cl = [stage |-> "idle", calls |-> 0, entry |-> "", request |-> NoClientRequest,
          transactionID |-> "", provider |-> "", trace |-> <<>>,
          ret |-> [resp |-> FALSE, err |-> NoError]]

(***************************************************************************)
(* RetryExecutor.calculateDelay.                                           *)
(***************************************************************************)
\* the range of time.Duration
MaxDuration == 2^(DurationBits - 1) - 1
MinDuration == -(2^(DurationBits - 1))

RetryConfig(initialDelay, maxDelay, multiplier, enableJitter) ==
    [InitialDelay |-> initialDelay, MaxDelay |-> maxDelay,
     Multiplier |-> multiplier, EnableJitter |-> enableJitter]

\* the configurations explored: delays counted in units of time.Duration
InitialDelays == {1, 3}
MaxDelays == {1, 30}
Multipliers == {1, 2}
RetryConfigs ==
    {RetryConfig(i, m, x, j) : i \in InitialDelays, m \in MaxDelays,
                               x \in Multipliers, j \in BOOLEAN}

\* float64(InitialDelay) * math.Pow(Multiplier, n): exact while a Duration
\* can hold it; MaxDuration + 1 stands for every larger value, +Inf included
RECURSIVE Backoff(_, _, _)
Backoff(initialDelay, multiplier, n) ==
    IF n = 0 THEN initialDelay
    ELSE LET b == Backoff(initialDelay, multiplier, n - 1)
         IN  IF b * multiplier > MaxDuration THEN MaxDuration + 1 ELSE b * multiplier

\* time.Duration(f) of a float64: the value when a Duration can hold it;
\* otherwise the conversion succeeds with an implementation-dependent value,
\* the smallest Duration on amd64 and the largest one on arm64
ToDuration(f) ==
    IF f <= MaxDuration THEN {f} ELSE {MinDuration, MaxDuration}

\* the maximum delay limit
Cap(config, delay) ==
    IF delay > config.MaxDelay THEN config.MaxDelay ELSE delay

\* rand.Int63n(n): the values it can return; it panics when n <= 0
Int63n(n) == IF n <= 0 THEN {} ELSE 0..(n - 1)

\* what a call of calculateDelay ends with: the delay before jitter, the
\* delay returned, or a panic
DelayOutcome(base, delay, panicked) ==
    [base |-> base, delay |-> delay, panicked |-> panicked]

\* the jitter step
Jitter(config, delay) ==
    IF config.EnableJitter /\ delay > 0
    THEN IF Int63n(delay \div 2) = {}
         THEN {DelayOutcome(delay, 0, TRUE)}
         ELSE {DelayOutcome(delay, delay \div 2 + jitter, FALSE) :
                   jitter \in Int63n(delay \div 2)}
    ELSE {DelayOutcome(delay, delay, FALSE)}

\* the outcomes of calculateDelay(attempt)
calculateDelay(config, attemptNumber) ==
    UNION {Jitter(config, Cap(config, d)) :
               d \in ToDuration(Backoff(config.InitialDelay, config.Multiplier,
                                         attemptNumber - 1))}

\* an executor with its configuration, before any delay is computed
NewDelayState(config) ==
    [config |-> config, attempt |-> 0, base |-> 0, delay |-> 0,
     prev |-> 0, panicked |-> FALSE]

InitDelayVars == dl = NewDelayState(RetryConfig(1, 30, 2, TRUE))

\* ExecutePayment asks for the delay after the next attempt
CallCalculateDelay ==
    /\ ~dl.panicked
    /\ dl.attempt < MaxAttemptNumber
    /\ \E o \in calculateDelay(dl.config, dl.attempt + 1) :
           dl' = [dl EXCEPT !.attempt = @ + 1, !.prev = dl.delay,
                            !.base = o.base, !.delay = o.delay,
                            !.panicked = o.panicked]
    /\ UNCHANGED nonDelayVars

(***************************************************************************)
(* Client.providers and Client.mu.                                         *)
(***************************************************************************)
\* const ProviderBPay, ProviderMasrvi
ProviderNames == {"bpay", "masrvi"}

\* the methods that read the map between c.mu.RLock() and c.mu.RUnlock()
ReadsUnderMu == {"ProcessPayment", "GetPaymentStatus", "ListProviders"}

\* the methods that read the map without touching c.mu
ReadsWithoutMu ==
    {"ProcessBPayPayment", "ProcessMasrviPayment", "HandleMasrviNotification",
     "GetBPayProvider", "GetMasrviProvider"}

\* the key a method looks up; the first three range over the whole map
KeyOf(op) ==
    CASE op \in {"ProcessBPayPayment", "GetBPayProvider"} -> "bpay"
      [] op \in {"ProcessMasrviPayment", "HandleMasrviNotification",
                 "GetMasrviProvider"} -> "masrvi"
      [] OTHER -> ""

\* a goroutine outside the client's methods
NoMapCall == [op |-> "", stage |-> "idle", key |-> "", access |-> "none",
              raced |-> FALSE, found |-> "none"]

\* NewClient: an empty map, the mutex free
InitMapVars ==
    pm = [providers |-> {}, writer |-> 0, readers |-> {}, calls |-> 0,
          g |-> [p \in Procs |-> NoMapCall]]

\* some other goroutine is writing the map
WrittenBeside(p) == \E q \in Procs \ {p} : pm.g[q].access = "write"

\* some other goroutine is reading the map
ReadBeside(p) == \E q \in Procs \ {p} : pm.g[q].access = "read"

\* what a lookup or a range over the map yields: the entry or its absence,
\* and, when it ran beside a write, whatever the runtime makes of the race,
\* its fatal "concurrent map read and map write" included
LookupResults(op, raced) ==
    IF raced THEN {"found", "missing", "fatal"}
    ELSE IF KeyOf(op) = ""
         THEN {IF pm.providers = {} THEN "missing" ELSE "found"}
         ELSE {IF KeyOf(op) \in pm.providers THEN "found" ELSE "missing"}

\* ProcessPayment, GetPaymentStatus or ListProviders is called
CallReadUnderMu(p, op) ==
    /\ pm.g[p].stage = "idle"
    /\ pm.calls < MaxMapCalls
    /\ pm' = [pm EXCEPT !.calls = @ + 1,
                        !.g[p] = [NoMapCall EXCEPT !.op = op, !.stage = "rlock"]]
    /\ UNCHANGED nonMapVars

\* c.mu.RLock(), then the range over c.providers begins
MuRLock(p) ==
    /\ pm.g[p].stage = "rlock"
    /\ pm.writer = 0
    /\ pm' = [pm EXCEPT !.readers = @ \cup {p},
                        !.g[p].stage = "reading", !.g[p].access = "read",
                        !.g[p].raced = WrittenBeside(p)]
    /\ UNCHANGED nonMapVars

\* ProcessBPayPayment, ProcessMasrviPayment, HandleMasrviNotification,
\* GetBPayProvider or GetMasrviProvider is called: the lookup
\* c.providers[name] begins at once
CallReadWithoutMu(p, op) ==
    /\ pm.g[p].stage = "idle"
    /\ pm.calls < MaxMapCalls
    /\ pm' = [pm EXCEPT !.calls = @ + 1,
                        !.g[p] = [NoMapCall EXCEPT !.op = op, !.stage = "reading",
                                                   !.key = KeyOf(op), !.access = "read",
                                                   !.raced = WrittenBeside(p)]]
    /\ UNCHANGED nonMapVars

\* the read of the map ends; c.mu.RUnlock() if it was taken
ReadProviders(p) ==
    /\ pm.g[p].stage = "reading"
    /\ \E r \in LookupResults(pm.g[p].op, pm.g[p].raced) :
           pm' = [pm EXCEPT !.readers = @ \ {p},
                            !.g[p].stage = "idle", !.g[p].access = "none",
                            !.g[p].found = r]
    /\ UNCHANGED nonMapVars

\* AddProvider(name, provider) is called with a provider
CallAddProvider(p, name) ==
    /\ pm.g[p].stage = "idle"
    /\ pm.calls < MaxMapCalls
    /\ pm' = [pm EXCEPT !.calls = @ + 1,
                        !.g[p] = [NoMapCall EXCEPT !.op = "AddProvider", !.stage = "lock",
                                                   !.key = name]]
    /\ UNCHANGED nonMapVars

\* c.mu.Lock(), then the assignment c.providers[name] = provider begins; a
\* read of the map under way is one that races with it
MuLock(p) ==
    /\ pm.g[p].stage = "lock"
    /\ pm.writer = 0
    /\ pm.readers = {}
    /\ pm' = [pm EXCEPT !.writer = p,
                        !.g = [q \in Procs |->
                                  IF q = p
                                  THEN [pm.g[p] EXCEPT !.stage = "writing",
                                                       !.access = "write"]
                                  ELSE [pm.g[q] EXCEPT !.raced = @ \/ pm.g[q].access = "read"]]]
    /\ UNCHANGED nonMapVars

\* the assignment ends; c.mu.Unlock()
WriteProviders(p) ==
    /\ pm.g[p].stage = "writing"
    /\ pm' = [pm EXCEPT !.providers = @ \cup {pm.g[p].key}, !.writer = 0,
                        !.g[p].stage = "idle", !.g[p].access = "none"]
    /\ UNCHANGED nonMapVars

\* the state of the components beside the payment path while they are not
\* under study
NoRest ==
    /\ InitTxnVars
    /\ InitAdapterVars
    /\ InitMasrviVars
    /\ InitClientVars
    /\ InitDelayVars
    /\ InitMapVars

(***************************************************************************)
(* The client's entry points: actions.                                     *)
(***************************************************************************)
\* an entry point is called
Entered(entry, req, transactionID) ==
    [cl EXCEPT !.calls = @ + 1, !.entry = entry, !.request = req,
               !.transactionID = transactionID, !.provider = "", !.trace = <<>>,
               !.ret = [resp |-> FALSE, err |-> NoError]]

\* an entry point returns
Returns(c, resp, err) ==
    [c EXCEPT !.stage = "ret", !.ret = [resp |-> resp, err |-> err]]

\* the entry point goes on to the stage named, having taken the steps given
Proceeds(c, stage, steps) ==
    [c EXCEPT !.stage = stage, !.trace = @ \o steps]

CanEnter ==
    /\ cl.stage \in {"idle", "ret"}
    /\ cl.calls < MaxClientCalls

\* Client.ProcessPayment on the active provider, up to the call of
\* provider.IsAvailable
ClientProcessPayment(req, active) ==
    /\ CanEnter
    /\ LET c    == Entered("ProcessPayment", req, "")
           verr == ValidatePaymentRequest(req)
           cv   == Proceeds(c, c.stage, <<Step("ValidatePaymentRequest", verr = NoError, now)>>)
           ce   == Proceeds(cv, c.stage, <<Step("IsExpired", IsExpired(req, now), now)>>)
       IN  cl' = IF ~active
                 THEN Returns(c, FALSE, NewPaymentError("PROVIDER_ERROR", FALSE))
                 ELSE IF verr # NoError
                 THEN Returns(cv, FALSE, verr)
                 ELSE IF IsExpired(req, now)
                 THEN Returns(ce, FALSE, NewPaymentError("PAYMENT_EXPIRED", FALSE))
                 ELSE Proceeds(ce, "available", <<>>)
    /\ UNCHANGED nonClientVars

\* the generic ProcessPayment on the first registered provider, up to the
\* call of provider.IsAvailable
ClientProcessPaymentGeneric(req, registered) ==
    /\ CanEnter
    /\ LET c == Entered("ProcessPaymentGeneric", req, "")
       IN  cl' = IF req.nil \/ ~registered
                 THEN Returns(c, FALSE, SentinelError)
                 ELSE Proceeds(c, "available", <<>>)
    /\ UNCHANGED nonClientVars

\* provider.IsAvailable answers; when it is true the provider's
\* ProcessPayment is invoked
ClientIsAvailableReturns(available) ==
    /\ cl.stage = "available"
    /\ LET c == Proceeds(cl, cl.stage, <<Step("IsAvailable", available, now)>>)
       IN  cl' = IF available
                 THEN Proceeds(c, "provider",
                               <<Step("provider.ProcessPayment", TRUE, now)>>)
                 ELSE IF cl.entry = "ProcessPayment"
                 THEN Returns(c, FALSE, NewPaymentError("PROVIDER_ERROR", FALSE))
                 ELSE Returns(c, FALSE, PlainError)
    /\ UNCHANGED nonClientVars

\* Client.ProcessBPayPayment and Provider.ProcessBPayPayment, up to the call
\* of the provider's ProcessPayment
ClientProcessBPayPayment(req, registered, implements) ==
    /\ CanEnter
    /\ LET c    == Entered("ProcessBPayPayment", req, "")
           verr == BPayValidate(req)
           cv   == Proceeds(c, c.stage, <<Step("Validate", verr = NoError, now)>>)
       IN  cl' = IF req.nil
                 THEN Returns(c, FALSE, SentinelError)
                 ELSE IF ~registered \/ ~implements
                 THEN Returns(c, FALSE, PlainError)
                 ELSE IF verr # NoError
                 THEN Returns(cv, FALSE, verr)
                 ELSE Proceeds(cv, "provider",
                               <<Step("provider.ProcessPayment", TRUE, now)>>)
    /\ UNCHANGED nonClientVars

\* Client.ProcessMasrviPayment and Provider.ProcessMasrviPayment, up to the
\* call of the provider's ProcessPayment
ClientProcessMasrviPayment(req, registered, implements) ==
    /\ CanEnter
    /\ LET c    == Entered("ProcessMasrviPayment", req, "")
           verr == MasrviValidate(req)
           cv   == Proceeds(c, c.stage, <<Step("Validate", verr = NoError, now)>>)
       IN  cl' = IF req.nil
                 THEN Returns(c, FALSE, SentinelError)
                 ELSE IF ~registered \/ ~implements
                 THEN Returns(c, FALSE, PlainError)
                 ELSE IF verr # NoError
                 THEN Returns(cv, FALSE, verr)
                 ELSE Proceeds(cv, "provider",
                               <<Step("provider.ProcessPayment", TRUE, now)>>)
    /\ UNCHANGED nonClientVars

\* the provider's ProcessPayment returns and the entry point returns what it
\* got; Client.ProcessPayment returns no response with an error
ClientProviderReturns(outcome) ==
    /\ cl.stage = "provider"
    /\ cl' = Returns(cl, outcome.resp /\ outcome.err = NoError, outcome.err)
    /\ UNCHANGED nonClientVars

\* Client.GetPaymentStatus on the active provider, up to the call of the
\* provider's GetPaymentStatus
ClientGetPaymentStatus(transactionID, active, provider) ==
    /\ CanEnter
    /\ LET c == Entered("GetPaymentStatus", NoClientRequest, transactionID)
       IN  cl' = IF ~active
                 THEN Returns(c, FALSE, NewPaymentError("PROVIDER_ERROR", FALSE))
                 ELSE IF transactionID = ""
                 THEN Returns(c, FALSE, NewValidationError)
                 ELSE [Proceeds(c, "status", <<>>) EXCEPT !.provider = provider]
    /\ UNCHANGED nonClientVars

\* the generic GetPaymentStatus on the first registered provider
ClientGetPaymentStatusGeneric(transactionID, registered, provider) ==
    /\ CanEnter
    /\ LET c == Entered("GetPaymentStatusGeneric", NoClientRequest, transactionID)
       IN  cl' = IF transactionID = "" \/ ~registered
                 THEN Returns(c, FALSE, SentinelError)
                 ELSE [Proceeds(c, "status", <<>>) EXCEPT !.provider = provider]
    /\ UNCHANGED nonClientVars

\* the provider's GetPaymentStatus returns: CheckPaymentStatus for B-PAY
ClientStatusReturns(reply, statusCode, checkStatus) ==
    /\ cl.stage = "status"
    /\ LET r == IF cl.provider = "bpay"
                THEN CheckPaymentStatus(cl.transactionID, reply, statusCode,
                                        checkStatus, now)
                ELSE MasrviGetPaymentStatus(cl.transactionID, now)
       IN  cl' = Returns(Proceeds(cl, cl.stage,
                                  <<Step("provider.GetPaymentStatus", r.err = NoError, now)>>),
                         ~r.ts.nil, r.err)
    /\ UNCHANGED nonClientVars

(***************************************************************************)
(* Specifications.                                                         *)
(***************************************************************************)
InitRetry == InitRetryVars /\ InitCredVars /\ NoPayment /\ NoPasscode /\ NoRest

NextRetry == ExecutePayment \/ Cancel

SpecRetry == InitRetry /\ [][NextRetry]_vars

InitCred ==
    /\ InitCredVars
    /\ InitRetryVars
    /\ MaxAttempts = MaxAttemptsBound
    /\ NoPayment
    /\ NoPasscode
    /\ NoRest

NextCred ==
    \/ \E p \in Procs : AuthManagerStep(p)
    \/ \E p \in Procs : SessionManagerStep(p)
    \/ Tick

SpecCred == InitCred /\ [][NextCred]_vars

\* the SessionManager alone, shared by the goroutines, as time passes
NextSession ==
    \/ \E p \in Procs : SessionManagerStep(p)
    \/ Tick

SpecSession == InitCred /\ [][NextSession]_vars

\* a payment through the B-PAY provider (retry executor of the default
\* configuration), while the other goroutines use the same AuthManager
InitBPay ==
    /\ InitRetryVars
    /\ MaxAttempts = DefaultMaxAttempts
    /\ InitCredVars
    /\ InitBPayVars
    /\ request \in {PaymentRequest(1, c) : c \in CallerPasscodes}
    /\ NoPasscode
    /\ NoRest

NextBPay ==
    \/ ExecutePaymentEnter
    \/ CheckCtx
    \/ SleepElapsed
    \/ SleepCancelled
    \/ Cancel
    \/ ProcessPayment
    \/ \E p \in Procs \ {Payer} : IsAvailable(p)

SpecBPay == InitBPay /\ [][NextBPay]_vars

\* generatePasscode applied to each value the random source can return
InitPasscode ==
    /\ InitRetryVars
    /\ MaxAttempts = DefaultMaxAttempts
    /\ InitCredVars
    /\ NoPayment
    /\ InitPassVars
    /\ rnd \in RandSource
    /\ NoRest

NextPasscode == GeneratePasscode

SpecPasscode == InitPasscode /\ [][NextPasscode]_vars

\* one transaction: notifications arrive, the caller records events, time
\* passes
InitTxn ==
    /\ InitRetryVars
    /\ MaxAttempts = DefaultMaxAttempts
    /\ InitCredVars
    /\ NoPayment
    /\ NoPasscode
    /\ NoRest

NextTxn ==
    \/ \E n \in Notifications : CallHandleNotification(n)
    \/ \E s \in PaymentStatuses : CallAddEvent(s, "note")
    \/ Tick

SpecTxn == InitTxn /\ [][NextTxn]_vars

\* the adapters hand back responses and statuses, for every provider reply
InitAdapters == InitTxn

NextAdapters ==
    \/ \E a \in PaymentAnswers : EmitBPayProcessPayment(a[1], a[2], a[3])
    \/ \E a \in CheckAnswers : EmitBPayCheckPaymentStatus(a[1], a[2], a[3])
    \/ \E g \in BOOLEAN, b \in BaseURLs : EmitMasrviProcessPayment(g, b)
    \/ \E t \in {"", "ref-1"} : EmitMasrviGetPaymentStatus(t)
    \/ \E n \in Notifications : EmitMasrviHandleNotification(n)

SpecAdapters == InitAdapters /\ [][NextAdapters]_vars

\* the Payer calls MASRVI's ProcessPayment while the other goroutines use the
\* SessionManager and time passes
InitMasrvi ==
    /\ InitRetryVars
    /\ MaxAttempts = DefaultMaxAttempts
    /\ InitCredVars
    /\ NoPayment
    /\ NoPasscode
    /\ InitTxnVars
    /\ InitAdapterVars
    /\ InitClientVars
    /\ InitDelayVars
    /\ InitMapVars
    /\ mp \in {NewMasrviProcessor(b) : b \in BaseURLs}

NextMasrvi ==
    \/ MasrviProcessPayment
    \/ \E p \in Procs \ {Payer} : MasrviIsAvailable(p)
    \/ Tick

SpecMasrvi == InitMasrvi /\ [][NextMasrvi]_vars

\* the entry points of the client are called, one call at a time, while time
\* passes
InitClient == InitTxn

NextClient ==
    \/ \E req \in ClientRequests, a \in BOOLEAN : ClientProcessPayment(req, a)
    \/ \E req \in ClientRequests, r \in BOOLEAN : ClientProcessPaymentGeneric(req, r)
    \/ \E a \in BOOLEAN : ClientIsAvailableReturns(a)
    \/ \E req \in BPayRequests, r, i \in BOOLEAN : ClientProcessBPayPayment(req, r, i)
    \/ \E req \in MasrviRequests, r, i \in BOOLEAN : ClientProcessMasrviPayment(req, r, i)
    \/ \E o \in ProviderOutcomes : ClientProviderReturns(o)
    \/ \E t \in {"", "ref-1"}, a \in BOOLEAN, p \in {"bpay", "masrvi"} :
           ClientGetPaymentStatus(t, a, p)
    \/ \E t \in {"", "ref-1"}, r \in BOOLEAN, p \in {"bpay", "masrvi"} :
           ClientGetPaymentStatusGeneric(t, r, p)
    \/ \E a \in CheckAnswers : ClientStatusReturns(a[1], a[2], a[3])
    \/ Tick

SpecClient == InitClient /\ [][NextClient]_vars

\* one goroutine, the Payer, makes a B-PAY payment under ExecutePayment and
\* calls MASRVI's ProcessPayment before or after it, against issuers that can
\* fail
InitIssuer == InitBPay

\* a step of the Payer inside ExecutePayment, not taken while its MASRVI call
\* is under way
PayerBPay ==
    /\ mp.stage # "session"
    /\ \/ ExecutePaymentEnter
       \/ CheckCtx
       \/ SleepElapsed
       \/ SleepCancelled
       \/ ProcessPayment

\* a step of the Payer in MASRVI's ProcessPayment, outside ExecutePayment
PayerMasrvi ==
    /\ pc \in {"idle", "done"}
    /\ MasrviProcessPayment

NextIssuer ==
    \/ PayerBPay
    \/ PayerMasrvi
    \/ Cancel

SpecIssuer == InitIssuer /\ [][NextIssuer]_vars

\* calculateDelay is called for attempt 1, 2, ... of one executor
InitDelay ==
    /\ InitRetryVars
    /\ MaxAttempts = DefaultMaxAttempts
    /\ InitCredVars
    /\ NoPayment
    /\ NoPasscode
    /\ InitTxnVars
    /\ InitAdapterVars
    /\ InitMasrviVars
    /\ InitClientVars
    /\ InitMapVars
    /\ dl \in {NewDelayState(c) : c \in RetryConfigs}

NextDelay == CallCalculateDelay

SpecDelay == InitDelay /\ [][NextDelay]_vars

\* goroutines call the client's methods that touch Client.providers
InitProviders == InitTxn

NextProviders ==
    \E p \in Procs :
        \/ \E op \in ReadsUnderMu : CallReadUnderMu(p, op)
        \/ MuRLock(p)
        \/ \E op \in ReadsWithoutMu : CallReadWithoutMu(p, op)
        \/ ReadProviders(p)
        \/ \E name \in ProviderNames : CallAddProvider(p, name)
        \/ MuLock(p)
        \/ WriteProviders(p)

SpecProviders == InitProviders /\ [][NextProviders]_vars

\* a step of a goroutine inside the call it has started: the scheduler runs
\* it, the transport answers it, and a free mutex is handed to it
Running(p) ==
    /\ gpc[p] # "idle"
    /\ \/ AuthManagerStep(p)
       \/ SessionManagerStep(p)

\* the goroutines call both managers at a fixed instant
NextLive ==
    \/ \E p \in Procs : AuthManagerStep(p)
    \/ \E p \in Procs : SessionManagerStep(p)

\* every started call keeps being scheduled
SpecLive ==
    /\ InitCred
    /\ [][NextLive]_vars
    /\ \A p \in Procs : WF_vars(Running(p))


(***************************************************************************)
(* Properties of RetryExecutor.ExecutePayment (under SpecRetry).           *)
(***************************************************************************)
\* ExecutePayment has returned
Returned == pc = "done"

\* every invocation so far failed with a retryable PaymentError
AllFailedRetryably == \A i \in DOMAIN outcomes : outcomes[i].kind = "retryable"

\* the (response, error) pair produced by the k-th invocation
PairOf(k) == [resp |-> outcomes[k].resp, err |-> FnError(outcomes[k].kind, k)]

\* the pair of a cancelled ExecutePayment
Cancelled == [resp |-> NilResp, err |-> CtxErr]

\* C1: in every state of every ExecutePayment call the number of
\* invocations of the operation is at most MaxAttempts.
C1_AtMostMaxAttempts == calls <= MaxAttempts

C1_Witness == Returned /\ MaxAttempts >= 2 /\ calls = MaxAttempts

\* C2: once an invocation has failed with a non-retryable PaymentError,
\* ExecutePayment has returned that very error (with that invocation's
\* response), no later invocation happens and no sleep follows it; when it is
\* the first invocation the operation was invoked exactly once.
C2_NonRetryableReturnsAtOnce ==
    \A k \in DOMAIN outcomes :
        outcomes[k].kind = "nonretryable" =>
            /\ Returned
            /\ ret = PairOf(k)
            /\ calls = k
            /\ sleeps = k - 1
            /\ (outcomes[1].kind = "nonretryable" => calls = 1)

C2_Witness ==
    /\ Returned
    /\ MaxAttempts = 3
    /\ Len(outcomes) = 1
    /\ outcomes[1].kind = "nonretryable"
    /\ calls = 1
    /\ sleeps = 0

\* C3: when ExecutePayment has returned, no cancellation fired and every
\* invocation failed with a retryable error, the operation was invoked
\* exactly MaxAttempts times.
C3_ExactlyMaxAttempts ==
    (Returned /\ ~ctxDone /\ AllFailedRetryably) =>
        (calls = MaxAttempts /\ Len(outcomes) = MaxAttempts)

C3_Witness ==
    /\ Returned
    /\ ~ctxDone
    /\ AllFailedRetryably
    /\ MaxAttempts = 3
    /\ calls = 3

\* C4: once the k-th invocation has returned a nil error, ExecutePayment has
\* returned that invocation's response with a nil error and the operation
\* was invoked exactly k times.
C4_SuccessReturnsAtOnce ==
    \A k \in DOMAIN outcomes :
        outcomes[k].kind = "nil" =>
            /\ Returned
            /\ ret = [resp |-> outcomes[k].resp, err |-> NilErr]
            /\ calls = k
            /\ Len(outcomes) = k

C4_Witness ==
    /\ Returned
    /\ Len(outcomes) = 3
    /\ outcomes[1].kind = "retryable"
    /\ outcomes[2].kind = "retryable"
    /\ outcomes[2].resp # NilResp
    /\ outcomes[3].kind = "nil"
    /\ ret.resp = 3

\* C5: when the context was cancelled before ExecutePayment was called, the
\* operation is never invoked and ExecutePayment returns (nil, ctx.Err()).
C5_CancelledBeforeCall ==
    cancelAt.pc = "idle" =>
        /\ calls = 0
        /\ Returned => ret = Cancelled

\* C6: when the context was cancelled during a backoff sleep, ExecutePayment
\* returns (nil, ctx.Err()) and the operation is not invoked again.
C6_CancelledInSleep ==
    cancelAt.pc = "sleep" =>
        /\ calls = cancelAt.calls
        /\ Returned => ret = Cancelled

C6_Witness ==
    /\ Returned
    /\ cancelAt.pc = "sleep"
    /\ cancelAt.calls = 2
    /\ lastErr = PaymentError(TRUE, 2)
    /\ ret = Cancelled

\* C7 as stated: when the context was cancelled while an invocation was in
\* flight, ExecutePayment returns (nil, ctx.Err()) whatever the invocation
\* returns.
C7_InFlightResultDiscarded ==
    (Returned /\ cancelAt.pc = "call") => ret = Cancelled

\* C7 amended: when the context was cancelled while the k-th invocation was
\* in flight, ExecutePayment returns (nil, ctx.Err()) without a further
\* invocation if that invocation fails with a retryable PaymentError or an
\* error of another type and k < MaxAttempts; otherwise (success,
\* non-retryable failure, failure of the last attempt) it returns the
\* invocation's own (response, error) pair.
C7_InFlightResultAmended ==
    (Returned /\ cancelAt.pc = "call") =>
        LET k == cancelAt.calls
        IN  /\ calls = k
            /\ IF outcomes[k].kind \in {"retryable", "other"} /\ k < MaxAttempts
               THEN ret = Cancelled
               ELSE ret = PairOf(k)

C7_Witness ==
    /\ Returned
    /\ cancelAt = [pc |-> "call", calls |-> 2]
    /\ outcomes[2].kind = "nil"
    /\ ret = [resp |-> 2, err |-> NilErr]

\* C8: when ExecutePayment has returned after MaxAttempts invocations that
\* all failed retryably, with no cancellation, it returns the (response,
\* error) pair of the last invocation and it slept only between attempts.
C8_LastPairReturned ==
    (Returned /\ ~ctxDone /\ AllFailedRetryably /\ calls >= 1) =>
        /\ ret = PairOf(calls)
        /\ ret.err = PaymentError(TRUE, MaxAttempts)
        /\ sleeps = calls - 1

C8_Witness ==
    /\ Returned
    /\ ~ctxDone
    /\ AllFailedRetryably
    /\ MaxAttempts = 3
    /\ outcomes[2].resp = 2
    /\ outcomes[3].resp = NilResp
    /\ ret = [resp |-> NilResp, err |-> PaymentError(TRUE, 3)]
    /\ sleeps = 2

(***************************************************************************)
(* Properties of the credential caches (under SpecCred).                   *)
(***************************************************************************)
\* every goroutine is between calls
AllIdle == \A p \in Procs : gpc[p] = "idle"

\* C9: when all calls so far were Get calls started while no credential was
\* cached, all have returned and no issuer call failed, exactly one issuer
\* call was made (for the AuthManager and for the SessionManager).
C9_ExactlyOneIssuance ==
    (AllIdle /\ started > 0 /\ hist.failures = 0) =>
        /\ hist.authEmptyGets = started => hist.authHttp = 1
        /\ hist.sessEmptyGets = started => hist.sessHttp = 1

\* C10: at no time are two issuance calls of one manager in flight.
C10_IssuanceSerialized ==
    /\ Cardinality(AuthInFlight) <= 1
    /\ Cardinality(SessionInFlight) <= 1

\* a Get call that has returned a credential
GotCredential(p, op) ==
    gpc[p] = "idle" /\ call[p].op = op /\ result[p].err = "nil"

\* C11: a Get call that started while an issuance of the same manager was in
\* progress returns without having sent an issuance request of its own
\* (no issuer call failed, no time passed, nothing was cleared).
C11_GetWaitsForRefresh ==
    \A p \in Procs :
        (/\ GotCredential(p, "GetAccessToken") \/ GotCredential(p, "GetSessionID")
         /\ call[p].sawRefresh
         /\ hist.failures = 0
         /\ now = 0
         /\ \A q \in Procs : call[q].op # "ClearCache")
            => ~call[p].ownIssue

\* C12: GetSessionID hands out a cached session id only strictly before its
\* expiry instant and without a request of its own; otherwise it hands out
\* the id it was just issued, cached with the full 5 minutes ahead of it.
C12_SessionNeverExpired ==
    /\ sessionCache.exists => sessionCache.expiresAt <= now + SessionTTL
    /\ \A p \in Procs :
           GotCredential(p, "GetSessionID") =>
               IF call[p].ownIssue
               THEN call[p].left = SessionTTL /\ result[p].val = call[p].sessionID
               ELSE call[p].left \in 1..SessionTTL

\* one goroutine was handed the cached id one minute before its expiry, and
\* another, finding the entry expired, was issued a new one
C12_Witness ==
    \E p, q \in Procs :
        /\ GotCredential(p, "GetSessionID")
        /\ ~call[p].ownIssue
        /\ call[p].left = 1
        /\ GotCredential(q, "GetSessionID")
        /\ call[q].expired
        /\ result[q].val > result[p].val

\* C13: GetAccessToken hands out a cached token only while the lifetime the
\* provider announced for it (expires_in, from issuance) has not elapsed.
C13_TokenNeverExpired ==
    \A p \in Procs :
        (GotCredential(p, "GetAccessToken") /\ ~call[p].ownIssue) => call[p].left > 0

\* C14: a GetSessionID call that started after a ClearCache had returned
\* hands out a session id issued after that ClearCache.
C14_NothingFromBeforeClear ==
    \A p \in Procs :
        GotCredential(p, "GetSessionID") => result[p].val > call[p].clearMark

\* the errors an issuance request can end with
IssueFailures == (AuthReplies \cup SessionReplies) \ {"ok"}

\* C15: a failed issuance request (authenticate, RefreshToken, createSession)
\* leaves both caches as they were and hands the failure, and no credential,
\* to the caller.
C15_FailureLeavesCache ==
    [][\A p \in Procs :
          (/\ gpc[p] \in {"au_http", "rt_http", "cs_http"}
           /\ gpc'[p] = "idle"
           /\ result'[p].err # "nil")
              => /\ auth' = auth
                 /\ sessionCache' = sessionCache
                 /\ result'[p] = Result(0, result'[p].err)
                 /\ result'[p].err \in IssueFailures]_vars

\* a refresh and a session request have failed while a token was cached,
\* and the token is still there
C15_Witness ==
    \E p, q \in Procs :
        /\ gpc[p] = "idle" /\ call[p].op = "RefreshToken"
        /\ result[p].err \in IssueFailures
        /\ gpc[q] = "idle" /\ call[q].op = "GetSessionID"
        /\ result[q].err \in IssueFailures
        /\ ~auth.nil /\ auth.AccessToken > 0

(***************************************************************************)
(* Properties of a B-PAY payment (under SpecBPay).                         *)
(***************************************************************************)
\* C16: an invocation of ProcessPayment that follows one which reported
\* AUTHENTICATION_FAILED and that gets a (non-empty) token gets one issued
\* after that report, not one that was cached when the failure was reported.
C16_ReissueAfterAuthFailure ==
    \A k \in 1..(Len(log) - 1) :
        (/\ log[k].code = "AUTHENTICATION_FAILED"
         /\ log[k + 1].gotToken
         /\ log[k + 1].token # 0)
            => log[k + 1].ownIssue \/ log[k + 1].token > log[k].mark

C18_MetadataPasscodeIsSent ==
    (Returned /\ ret.resp # NilResp) =>
        /\ bp.response.id = ret.resp
        /\ \E i \in 1..Len(wire) :
               /\ wire[i].attempt = ret.resp
               /\ bp.response.Metadata.passcode = wire[i].body.Passcode

\* a response is returned by the second attempt, whose passcode differs from
\* the first attempt's and from the caller's
C18_Witness ==
    /\ Returned
    /\ ret.resp = 2
    /\ request.Passcode # <<>>
    /\ Len(wire) = 2
    /\ wire[1].body.Passcode # wire[2].body.Passcode
    /\ bp.response.Metadata.passcode # request.Passcode

(***************************************************************************)
(* Properties of generatePasscode (under SpecPasscode).                    *)
(***************************************************************************)
\* the number written by a sequence of decimal digits
RECURSIVE DecimalValue(_)
DecimalValue(digits) ==
    IF digits = <<>>
    THEN 0
    ELSE 10 * DecimalValue(SubSeq(digits, 1, Len(digits) - 1)) + digits[Len(digits)]

\* C19: for every number the random source returns, generatePasscode returns
\* four decimal digits writing a number of 1000..9999, and the numbers
\* 0..8999 of the source are mapped one to one onto that range.
C19_FourDigitsInRange ==
    (generated.done /\ ~rnd.failed) =>
        LET s == generated.ret.val
        IN  /\ ~generated.ret.failed
            /\ Len(s) = 4
            /\ \A i \in 1..Len(s) : s[i] \in 0..9
            /\ DecimalValue(s) \in 1000..9999
            /\ rnd.n \in 0..8999
            /\ DecimalValue(s) = 1000 + rnd.n

\* the largest passcode has been generated
C19_Witness ==
    /\ generated.done
    /\ generated.ret = PasscodeResult(<<9, 9, 9, 9>>, FALSE)

(***************************************************************************)
(* The B-PAY result code (under SpecBPay).                                 *)
(***************************************************************************)
\* C20: the status of the response ProcessPayment builds is success for the
\* provider's errorCode "0", failed for "1", "2" and "4", and pending for
\* every other one.
C20_StatusIsLookup ==
    (bp.stage = "ret" /\ ~bp.response.nil) =>
        LET errorCode == log[Len(log)].errorCode
            status    == bp.response.Status
        IN  /\ bp.response.Metadata.error_code = errorCode
            /\ errorCode = "0" => status = "success"
            /\ errorCode \in {"1", "2", "4"} => status = "failed"
            /\ errorCode \notin {"0", "1", "2", "4"} => status = "pending"

\* responses have been returned for error code "1" (failed)
C20_Witness ==
    /\ Returned
    /\ ret.resp # NilResp
    /\ log[Len(log)].errorCode = "1"
    /\ bp.response.Status = "failed"

C22_TerminalStatusKept ==
    [][(~ts.nil /\ IsCompleted(ts.Status) /\ hn' = hn /\ ts' # ts) =>
           /\ Len(ts'.Events) = Len(ts.Events) + 1
           /\ ts'.Status = ts.Status]_vars

\* C23: whenever the event list is not empty, the last event has the current
\* Status, LastUpdated is its timestamp, and GetLatestEvent returns it.
C23_LastEventIsCurrent ==
    (~ts.nil /\ Len(ts.Events) > 0) =>
        LET last == ts.Events[Len(ts.Events)]
        IN  /\ last.Status = ts.Status
            /\ last.Timestamp = ts.LastUpdated
            /\ ~GetLatestEvent(ts).nil
            /\ GetLatestEvent(ts).event = last

\* a pending event was added to a transaction that had succeeded
C23_Witness ==
    /\ ~ts.nil
    /\ Len(ts.Events) = 2
    /\ ts.Events[1].Status = "success"
    /\ ts.Events[2].Status = "pending"
    /\ ts.Status = "pending"
    /\ ts.Events[2].Timestamp > ts.Events[1].Timestamp

\* C24: each AddEvent makes the event list one longer, puts the new event at
\* the end and leaves the earlier events as they were; with a clock that
\* never goes back, the timestamps never decrease along the list.
C24_EventsAppendOnly ==
    [][(hn' = hn /\ ts' # ts) =>
           /\ Len(ts'.Events) = Len(ts.Events) + 1
           /\ SubSeq(ts'.Events, 1, Len(ts.Events)) = ts.Events
           /\ ts'.Events[Len(ts'.Events)].Timestamp = now
           /\ \A i \in 1..(Len(ts'.Events) - 1) :
                  ts'.Events[i].Timestamp <= ts'.Events[i + 1].Timestamp]_vars

\* a second event was recorded after the first, at a later instant
C24_Witness ==
    /\ ~ts.nil
    /\ hn.calls = 1
    /\ Len(ts.Events) = 2
    /\ ts.Events[1].Timestamp < ts.Events[2].Timestamp
    /\ ts.Events[1].Status # ts.Events[2].Status

\* C25: every response and status an adapter hands back (B-PAY ProcessPayment
\* and CheckPaymentStatus, MASRVI ProcessPayment, GetPaymentStatus and
\* HandleNotification) is pending, success or failed, never cancelled or
\* expired, whatever the provider replied.
C25_AdaptersEmitThreeStatuses ==
    \A i \in 1..Len(emitted) :
        ~emitted[i].nil =>
            /\ emitted[i].status \in PaymentStatuses
            /\ emitted[i].status \in {"pending", "success", "failed"}

\* B-PAY's status check answered, and a webhook notification was handled
C25_Witness ==
    /\ Len(emitted) = 2
    /\ emitted[1].adapter = "bpay.CheckPaymentStatus"
    /\ ~emitted[1].nil
    /\ emitted[1].status = "failed"
    /\ emitted[2].adapter = "masrvi.HandleNotification"
    /\ ~emitted[2].nil

(***************************************************************************)
(* Properties of MASRVI ProcessPayment.                                    *)
(***************************************************************************)
\* C26: whenever GetSessionID gave a session id, MASRVI's ProcessPayment
\* returns a pending response whose TransactionID is the request's reference
\* and whose payment URL is not empty, having made no transport call but at
\* most one session request.
C26_MasrviReturnsPendingURL ==
    (mp.stage = "ret" /\ result[Payer].err = "nil") =>
        /\ mp.err = NoError
        /\ ~mp.response.nil
        /\ mp.response.Status = "pending"
        /\ mp.response.TransactionID = mp.request.Reference
        /\ \E i \in 1..Len(mp.response.PaymentURL) : mp.response.PaymentURL[i] # ""
        /\ mp.transport <= 1

\* a second call returned a response on the cached session, with an empty
\* base URL
C26_Witness ==
    /\ mp.stage = "ret"
    /\ mp.calls = 2
    /\ mp.baseURL = ""
    /\ result[Payer].err = "nil"
    /\ mp.transport = 0
    /\ mp.response.TransactionID = 2
    /\ mp.response.Status = "pending"

(***************************************************************************)
(* Properties of the client's entry points.                                *)
(***************************************************************************)
\* the position in the trace of the call of the provider's ProcessPayment,
\* or 0
InvokedAt ==
    IF \E i \in 1..Len(cl.trace) : cl.trace[i][1] = "provider.ProcessPayment"
    THEN CHOOSE i \in 1..Len(cl.trace) : cl.trace[i][1] = "provider.ProcessPayment"
    ELSE 0

C28_ErrorsAreCanonical ==
    (cl.stage = "ret" /\ cl.ret.err # NoError) =>
        \/ cl.ret.err.type = "PaymentError"
        \/ cl.ret.err.type = "sentinel"
        \/ cl.ret.err = CancellationError

(***************************************************************************)
(* Properties of the B-PAY adapter's error mapping.                        *)
(***************************************************************************)
\* results the B-PAY adapter handed back
BPayEmitted ==
    {i \in 1..Len(emitted) :
        emitted[i].adapter \in {"bpay.ProcessPayment", "bpay.CheckPaymentStatus"}}

\* C29: when the transport call fails because its deadline was exceeded, the
\* adapter returns a retryable PaymentError of kind Timeout, not NetworkError.
C29_DeadlineGivesTimeout ==
    \A i \in BPayEmitted :
        emitted[i].reply = "timeout" =>
            /\ emitted[i].nil
            /\ emitted[i].err.type = "PaymentError"
            /\ emitted[i].err.Retryable
            /\ emitted[i].err.Code = "TIMEOUT"

\* C30: for a response of non-2xx status, ProcessPayment and
\* CheckPaymentStatus of B-PAY return a NetworkError or a ProviderError and no
\* result.
C30_Non2xxIsAnError ==
    \A i \in BPayEmitted :
        (emitted[i].statusCode # NoStatusCode /\ emitted[i].statusCode \notin 200..299) =>
            /\ emitted[i].nil
            /\ emitted[i].err.type = "PaymentError"
            /\ emitted[i].err.Code \in {"NETWORK_ERROR", "PROVIDER_ERROR"}

(***************************************************************************)
(* Properties of the adapters when the issuer fails.                       *)
(***************************************************************************)
\* C31: when GetAccessToken fails, B-PAY's ProcessPayment returns an
\* AuthenticationFailed error, and when GetSessionID fails, MASRVI's
\* ProcessPayment returns a ProviderError; the invocation sends no payment
\* request.
C31_IssuerFailureIsWrapped ==
    [][/\ (bp.stage = "token" /\ bp'.stage = "ret" /\ result[Payer].err # "nil") =>
            /\ bp'.kind # "nil"
            /\ bp'.response.nil
            /\ log'[Len(log')].code = "AUTHENTICATION_FAILED"
            /\ wire' = wire
            /\ \A i \in 1..Len(wire) : wire[i].attempt # Len(log')
       /\ (mp.stage = "session" /\ mp'.stage = "ret" /\ result[Payer].err # "nil") =>
            /\ mp'.err.type = "PaymentError"
            /\ mp'.err.Code = "PROVIDER_ERROR"
            /\ mp'.response.nil
            /\ wire' = wire]_vars

\* both adapters have reported a failure of their issuer
C31_Witness ==
    /\ \E k \in 1..Len(log) : ~log[k].gotToken /\ log[k].code = "AUTHENTICATION_FAILED"
    /\ mp.stage = "ret"
    /\ mp.response.nil
    /\ mp.err.Code = "PROVIDER_ERROR"

(***************************************************************************)
(* Properties of calculateDelay.                                           *)
(***************************************************************************)
\* min(InitialDelay * Multiplier^(k-1), MaxDelay)
CappedBackoff(config, k) ==
    Cap(config, Backoff(config.InitialDelay, config.Multiplier, k - 1))

\* the delays of InitialDelay = 1, Multiplier = 2, MaxDelay = 30
ScenarioDelays == <<1, 2, 4, 8, 16, 30, 30>>

\* C32: with jitter disabled, calculateDelay(k) is
\* min(InitialDelay * Multiplier^(k-1), MaxDelay) for every k >= 1 (1, 2, 4,
\* 8, 16, 30, 30 and 30 from then on for InitialDelay 1, Multiplier 2,
\* MaxDelay 30), is never negative, never decreases as k grows and never
\* exceeds MaxDelay.
C32_DelayIsCappedBackoff ==
    (~dl.config.EnableJitter /\ dl.attempt >= 1) =>
        /\ ~dl.panicked
        /\ dl.delay = CappedBackoff(dl.config, dl.attempt)
        /\ dl.delay >= 0
        /\ dl.delay <= dl.config.MaxDelay
        /\ dl.attempt >= 2 => dl.prev <= dl.delay
        /\ dl.config = RetryConfig(1, 30, 2, FALSE) =>
               dl.delay = IF dl.attempt <= Len(ScenarioDelays)
                          THEN ScenarioDelays[dl.attempt] ELSE 30

\* C33: with jitter enabled, for every positive delay d before jitter,
\* the smallest one included, calculateDelay returns normally a value r
\* with d/2 <= r <= d, whatever the random source returns.
C33_JitterStaysInRange ==
    (dl.config.EnableJitter /\ dl.attempt >= 1 /\ dl.base > 0) =>
        /\ ~dl.panicked
        /\ dl.base \div 2 <= dl.delay
        /\ dl.delay <= dl.base

(***************************************************************************)
(* Locks and blocking points.                                              *)
(***************************************************************************)
\* the goroutine holds authMutex or cacheMutex, shared or exclusive
HoldsLock(p) ==
    \/ authWriter = p
    \/ p \in authReaders
    \/ cacheWriter = p
    \/ p \in cacheReaders

\* the Payer is waiting for the answer to a request or for the backoff delay
\* to elapse
PayerBlocked ==
    \/ gpc[Payer] \in {"au_http", "rt_http", "cs_http"}
    \/ bp.stage = "http"
    \/ pc = "sleep"

\* C34: a goroutine blocked in a transport call (issuance or payment) or in
\* the backoff sleep of the retry executor holds no lock.
C34_NoLockWhileBlocked == PayerBlocked => ~HoldsLock(Payer)

(***************************************************************************)
(* Further properties of ExecutePayment.                                   *)
(***************************************************************************)
\* C35: ExecutePayment returns a nil error only if some invocation of the
\* operation returned a nil error, and then it returns that invocation's
\* response; for every RetryConfig, MaxAttempts <= 0 included.
C35_NilErrorMeansSuccess ==
    (Returned /\ ret.err = NilErr) =>
        \E k \in DOMAIN outcomes : outcomes[k].kind = "nil" /\ ret = PairOf(k)

C37_NoEmptyToken ==
    /\ ~auth.nil => auth.AccessToken # 0
    /\ \A p \in Procs :
           (gpc[p] = "idle" /\ call[p].op = "GetAccessToken" /\ result[p].err = "nil") =>
               result[p].val # 0

(***************************************************************************)
(* Client.providers under Client.mu.                                       *)
(***************************************************************************)
\* C38: every access to Client.providers is made while holding Client.mu
\* (shared for the reads, exclusive for AddProvider's write), so no read of
\* the map runs beside a write of it.
C38_ProvidersUnderMu ==
    \A p \in Procs :
        /\ pm.g[p].access = "read" => p \in pm.readers
        /\ pm.g[p].access = "write" => pm.writer = p /\ ~ReadBeside(p)
        /\ ~pm.g[p].raced

(***************************************************************************)
(* Termination of the managers' calls.                                     *)
(***************************************************************************)
\* C39: under every interleaving of GetAccessToken, RefreshToken,
\* GetSessionID and ClearCache, every call eventually returns once its
\* transport call has returned, and when all calls have returned neither
\* authMutex nor cacheMutex is held.
C39_EveryCallReturns ==
    /\ \A p \in Procs : (gpc[p] # "idle") ~> (gpc[p] = "idle")
    /\ []((\A p \in Procs : gpc[p] = "idle") =>
              /\ authWriter = 0
              /\ authReaders = {}
              /\ cacheWriter = 0
              /\ cacheReaders = {})

\* a goroutine waits for authMutex while the holder's authentication
\* request is about to fail
C39_Witness ==
    /\ gpc[1] = "au_http"
    /\ authWriter = 1
    /\ gpc[2] \in {"au_lock", "rt_lock", "gat_rlock"}

====
